---- MODULE Spec2Model ----
(***************************************************************************)
(* Model of idiom_tui's single line TextField (src/src/text_field.rs), the *)
(* LineBuilder it renders into (src/src/layout/line.rs) and the width-safe *)
(* truncation it relies on (src/src/utils/mod.rs).                         *)
(*                                                                         *)
(* A String is a sequence of UTF-8 bytes; a byte offset k of the source is *)
(* the position between byte k and byte k+1 of the sequence (1-indexed), so*)
(* text[a..b] is SubSeq(text, a+1, b).  An Option is a sequence of length  *)
(* at most one: None is <<>> and Some(x) is <<x>>.                         *)
(***************************************************************************)
EXTENDS Integers, Sequences, FiniteSets

VARIABLES text, char, select, status, parts, ret, op, arg, out, panicked, builder

vars == <<text, char, select, status, parts, ret, op, arg, out, panicked, builder>>

-----------------------------------------------------------------------------
(* Bounds of the model.                                                    *)

\* longest text, in characters
MaxChars == 3
\* longest pasted / replacement string, in characters
MaxClip == 1
\* widest line builder handed to the renderer, in columns
MaxWidth == 4
\* longest text of the field driven by key events, in characters
MaxKeyChars == 2

-----------------------------------------------------------------------------
(* Characters: their UTF-8 encodings and Unicode properties.               *)

\* 'a' : 1 byte, alphanumeric, 1 column
LatinA == <<"a">>
\* ' ' : 1 byte, whitespace, 1 column
Space == <<" ">>
\* U+00E9 : 2 bytes, alphabetic, 1 column
EAcute == <<"C3", "A9">>
\* U+1F980 (crab) : 4 bytes, neither alphanumeric nor whitespace, 2 columns
Crab == <<"F0", "9F", "A6", "80">>
\* '\n' : 1 byte, whitespace, control character
Newline == <<"\n">>

\* one character of each class the code tells apart: whitespace, alphanumeric,
\* and neither; between them encodings of 1, 2 and 4 bytes and widths 1 and 2
TextChars == {Space, EAcute, Crab}
\* the characters of key events: those of the texts and the 'a' of ctrl+a
KeyChars == TextChars \cup {LatinA}
\* the characters of pasted strings
ClipChars == {EAcute, Crab, Newline}

None == <<>>
Some(x) == <<x>>

\* UTF-8 continuation bytes (10xxxxxx)
IsCont(b) == b \in {"A9", "9F", "A6", "80"}

\* char::len_utf8 of the character whose first byte is b
len_utf8(b) == IF b = "F0" THEN 4 ELSE IF b = "C3" THEN 2 ELSE 1

\* UnicodeWidthChar::width(..).unwrap_or(0) of the character whose first byte is b
char_width(b) == IF b = "F0" THEN 2 ELSE IF b = "\n" THEN 0 ELSE 1

is_whitespace(b) == b \in {" ", "\n"}

\* char::is_alphabetic() || char::is_numeric()
should_jump(b) == b \in {"a", "C3"}

\* str::is_char_boundary
is_char_boundary(t, i) ==
    \/ i = 0
    \/ i = Len(t)
    \/ (0 < i /\ i < Len(t) /\ ~IsCont(t[i + 1]))

\* whether t[a..b] is a valid slice (it panics otherwise)
SliceOk(t, a, b) ==
    a <= b /\ b <= Len(t) /\ is_char_boundary(t, a) /\ is_char_boundary(t, b)

Slice(t, a, b) == SubSeq(t, a + 1, b)

\* str::chars().count()
RECURSIVE char_len(_)
char_len(t) ==
    IF t = <<>> THEN 0
    ELSE (IF IsCont(Head(t)) THEN 0 ELSE 1) + char_len(Tail(t))

\* UnicodeWidthStr::width
RECURSIVE width(_)
width(t) ==
    IF t = <<>> THEN 0
    ELSE (IF IsCont(Head(t)) THEN 0 ELSE char_width(Head(t))) + width(Tail(t))

\* byte offset at which the character ending at offset i (> 0) starts
RECURSIVE PrevStart(_, _)
PrevStart(t, i) == IF IsCont(t[i]) /\ i > 1 THEN PrevStart(t, i - 1) ELSE i - 1

contains_newline(t) == \E i \in 1..Len(t) : t[i] = "\n"

RECURSIVE StrsOfLen(_, _)
StrsOfLen(A, n) ==
    IF n = 0 THEN {<<>>}
    ELSE {c \o s : c \in A, s \in StrsOfLen(A, n - 1)}

StrsUpTo(A, n) == UNION {StrsOfLen(A, k) : k \in 0..n}

\* the texts a field is constructed from or set to
Texts == StrsUpTo(TextChars, MaxChars)
\* the strings pasted
Clips == StrsUpTo(ClipChars, MaxClip)
\* the strings a text is set to or a token is replaced by
NewTexts == StrsUpTo(TextChars, 1)

-----------------------------------------------------------------------------
(* Status                                                                  *)

Skipped == 0
UpdatedCursor == 1
Updated == 2

\* an add that keeps its left operand
add_keeps_self(a, b) == a

\* impl Add for Status
Add(a, b) == IF a >= b THEN a ELSE b

\* impl AddAssign for Status: status += rhs
AddAssign(self, rhs) == IF rhs > self THEN rhs ELSE self

is_updated(s) == s \in {Updated, UpdatedCursor}

is_text_updated(s) == s = Updated

-----------------------------------------------------------------------------
(* The field as a value: [text, char, select, panic], and the result of a  *)
(* method as [f |-> field after the call, st |-> Status, clip |-> Option]. *)
(* clip is the Option<String> the call produced: the one copy, cut and     *)
(* text_take return, and the one take_selected handed to del, backspace,   *)
(* push_char and paste_passthrough, which they drop.                       *)
(* A method called on a field that already panicked does nothing: the call *)
(* is never reached.                                                       *)

Field(t, c, s) == [text |-> t, char |-> c, select |-> s, panic |-> FALSE]

Res(f, st) == [f |-> f, st |-> st, clip |-> None, parts |-> <<>>]

\* the result of a method that sums the Status of its steps: a + b + ...
RECURSIVE Sum(_)
Sum(sts) == IF Len(sts) = 1 THEN sts[1] ELSE Add(Sum(SubSeq(sts, 1, Len(sts) - 1)), sts[Len(sts)])

Steps(f, sts) == [f |-> f, st |-> Sum(sts), clip |-> None, parts |-> sts]

Panic(f) == Res([f EXCEPT !.panic = TRUE], Skipped)

\* the result r of a method that called take_selected and got taken
Took(r, taken) == [r EXCEPT !.clip = taken.clip]

\* TextField::select: the selection normalized to (min, max)
Normalized(s) ==
    IF s = None THEN None
    ELSE IF s[1][1] > s[1][2] THEN Some(<<s[1][2], s[1][1]>>) ELSE s

\* select_drop reporting the selection without taking it
select_drop_keeps(f) ==
    IF f.panic THEN Res(f, Skipped)
    ELSE Res(f, IF f.select # None THEN UpdatedCursor ELSE Skipped)

select_drop(f) ==
    IF f.panic THEN Res(f, Skipped)
    ELSE Res([f EXCEPT !.select = None],
             IF f.select # None THEN UpdatedCursor ELSE Skipped)

next_char(f) ==
    IF f.panic THEN Res(f, Skipped)
    ELSE IF ~SliceOk(f.text, f.char, Len(f.text)) THEN Panic(f)
    ELSE IF f.char < Len(f.text)
         THEN Res([f EXCEPT !.char = f.char + len_utf8(f.text[f.char + 1])],
                  UpdatedCursor)
         ELSE Res(f, Skipped)

\* prev_char stepping back one byte instead of one character
prev_char_one_byte(f) ==
    IF f.panic THEN Res(f, Skipped)
    ELSE IF ~SliceOk(f.text, 0, f.char) THEN Panic(f)
    ELSE IF f.char > 0
         THEN Res([f EXCEPT !.char = f.char - 1], UpdatedCursor)
         ELSE Res(f, Skipped)

prev_char(f) ==
    IF f.panic THEN Res(f, Skipped)
    ELSE IF ~SliceOk(f.text, 0, f.char) THEN Panic(f)
    ELSE IF f.char > 0
         THEN Res([f EXCEPT !.char = PrevStart(f.text, f.char)], UpdatedCursor)
         ELSE Res(f, Skipped)

\* the loop of jump_left_move: the start of the run of should_jump characters
\* that ends at offset c
RECURSIVE JumpLeftTarget(_, _)
JumpLeftTarget(t, c) ==
    IF c = 0 THEN 0
    ELSE LET s == PrevStart(t, c)
         IN  IF should_jump(t[s + 1]) THEN JumpLeftTarget(t, s) ELSE c

jump_left_move(f) ==
    IF f.panic THEN Res(f, Skipped)
    ELSE IF ~SliceOk(f.text, 0, f.char) THEN Panic(f)
    ELSE LET new_char == JumpLeftTarget(f.text, f.char)
         IN  IF new_char = f.char THEN Res(f, Skipped)
             ELSE Res([f EXCEPT !.char = new_char], UpdatedCursor)

\* the loop of jump_right_move: the offset of the first character at or after
\* c that is not should_jump, or -1 when the loop ends without finding one
RECURSIVE JumpRightTarget(_, _)
JumpRightTarget(t, c) ==
    IF c >= Len(t) THEN -1
    ELSE IF ~should_jump(t[c + 1]) THEN c
    ELSE JumpRightTarget(t, c + len_utf8(t[c + 1]))

\* jump_right_move stopping after the first character that is not should_jump
\* instead of in front of it
jump_right_move_stops_after(f) ==
    IF f.panic THEN Res(f, Skipped)
    ELSE IF ~SliceOk(f.text, f.char, Len(f.text)) THEN Panic(f)
    ELSE LET stop == JumpRightTarget(f.text, f.char)
         IN  IF stop # -1
             THEN Res([f EXCEPT !.char = stop + len_utf8(f.text[stop + 1])],
                      UpdatedCursor)
             ELSE IF f.char = Len(f.text) THEN Res(f, Skipped)
             ELSE Res([f EXCEPT !.char = Len(f.text)], UpdatedCursor)

jump_right_move(f) ==
    IF f.panic THEN Res(f, Skipped)
    ELSE IF ~SliceOk(f.text, f.char, Len(f.text)) THEN Panic(f)
    ELSE LET stop == JumpRightTarget(f.text, f.char)
         IN  IF stop # -1 THEN Res([f EXCEPT !.char = stop], UpdatedCursor)
             ELSE IF f.char = Len(f.text) THEN Res(f, Skipped)
             ELSE Res([f EXCEPT !.char = Len(f.text)], UpdatedCursor)

init_select(f) ==
    IF f.panic THEN Res(f, Skipped)
    ELSE IF f.select # None THEN Res(f, Skipped)
    ELSE Res([f EXCEPT !.select = Some(<<f.char, f.char>>)], UpdatedCursor)

\* push_select writing the cursor into the anchor instead of the active end
push_select_moves_anchor(f) ==
    IF f.panic THEN Res(f, Skipped)
    ELSE IF f.select # None /\ f.select[1][2] # f.char
         THEN Res([f EXCEPT !.select = Some(<<f.char, f.select[1][2]>>)],
                  UpdatedCursor)
         ELSE Res(f, Skipped)

push_select(f) ==
    IF f.panic THEN Res(f, Skipped)
    ELSE IF f.select # None /\ f.select[1][2] # f.char
         THEN Res([f EXCEPT !.select = Some(<<f.select[1][1], f.char>>)],
                  UpdatedCursor)
         ELSE Res(f, Skipped)

\* get_selected slicing from the stored anchor to the stored active end
get_selected_unnormalized(f) ==
    IF f.panic \/ f.select = None THEN Res(f, Skipped)
    ELSE LET from == f.select[1][1]
             to == f.select[1][2]
         IN  IF from = to THEN Res(f, Skipped)
             ELSE IF ~SliceOk(f.text, from, to) THEN Panic(f)
             ELSE [f |-> f, st |-> Skipped, parts |-> <<>>,
                   clip |-> Some(Slice(f.text, from, to))]

get_selected(f) ==
    IF f.panic \/ f.select = None THEN Res(f, Skipped)
    ELSE LET from == Normalized(f.select)[1][1]
             to == Normalized(f.select)[1][2]
         IN  IF from = to THEN Res(f, Skipped)
             ELSE IF ~SliceOk(f.text, from, to) THEN Panic(f)
             ELSE [f |-> f, st |-> Skipped, parts |-> <<>>,
                   clip |-> Some(Slice(f.text, from, to))]

\* take_selected reading the selection without taking it when it is empty
take_selected_keeps_empty(f) ==
    IF f.panic \/ f.select = None THEN Res(f, Skipped)
    ELSE LET from == Normalized(f.select)[1][1]
             to == Normalized(f.select)[1][2]
             dropped == [f EXCEPT !.select = None]
         IN  IF from = to THEN Res(f, Skipped)
             ELSE IF ~SliceOk(f.text, from, to) THEN Panic(dropped)
             ELSE [f |-> [dropped EXCEPT
                            !.text = Slice(f.text, 0, from)
                                       \o Slice(f.text, to, Len(f.text)),
                            !.char = from],
                   st |-> Skipped, parts |-> <<>>,
                   clip |-> Some(Slice(f.text, from, to))]

take_selected(f) ==
    IF f.panic \/ f.select = None THEN Res(f, Skipped)
    ELSE LET from == Normalized(f.select)[1][1]
             to == Normalized(f.select)[1][2]
             dropped == [f EXCEPT !.select = None]
         IN  IF from = to THEN Res(dropped, Skipped)
             ELSE IF ~SliceOk(f.text, from, to) THEN Panic(dropped)
             ELSE [f |-> [dropped EXCEPT
                            !.text = Slice(f.text, 0, from)
                                       \o Slice(f.text, to, Len(f.text)),
                            !.char = from],
                   st |-> Skipped, parts |-> <<>>,
                   clip |-> Some(Slice(f.text, from, to))]

-----------------------------------------------------------------------------
(* Token lookup                                                            *)

\* the loop of arg_range_at returning at the first whitespace after idx
\* instead of the first at or after idx
RECURSIVE ArgScanPastIdx(_, _, _, _, _)
ArgScanPastIdx(line, idx, pos, token_start, last_not_in_token) ==
    IF pos >= Len(line)
    THEN IF idx < Len(line) THEN <<token_start, Len(line)>>
         ELSE IF ~last_not_in_token /\ token_start <= idx THEN <<token_start, idx>>
         ELSE <<idx, idx>>
    ELSE LET ch == line[pos + 1]
             nxt == pos + len_utf8(ch)
         IN  IF ~is_whitespace(ch)
             THEN ArgScanPastIdx(line, idx, nxt,
                                 IF last_not_in_token THEN pos ELSE token_start, FALSE)
             ELSE IF pos > idx
                  THEN IF last_not_in_token THEN <<idx, idx>>
                       ELSE <<token_start, pos>>
                  ELSE ArgScanPastIdx(line, idx, nxt, token_start, TRUE)

\* the loop of arg_range_at from byte offset pos on, then its tail
RECURSIVE ArgScan(_, _, _, _, _)
ArgScan(line, idx, pos, token_start, last_not_in_token) ==
    IF pos >= Len(line)
    THEN IF idx < Len(line) THEN <<token_start, Len(line)>>
         ELSE IF ~last_not_in_token /\ token_start <= idx THEN <<token_start, idx>>
         ELSE <<idx, idx>>
    ELSE LET ch == line[pos + 1]
             nxt == pos + len_utf8(ch)
         IN  IF ~is_whitespace(ch)
             THEN ArgScan(line, idx, nxt,
                          IF last_not_in_token THEN pos ELSE token_start, FALSE)
             ELSE IF pos >= idx
                  THEN IF last_not_in_token THEN <<idx, idx>>
                       ELSE <<token_start, pos>>
                  ELSE ArgScan(line, idx, nxt, token_start, TRUE)

\* arg_range_at collapsing to idx..idx when idx is the start of a token that
\* follows whitespace
arg_range_at_between_at_token_start(line, idx) ==
    IF /\ 0 < idx /\ idx < Len(line)
       /\ is_whitespace(line[idx]) /\ ~is_whitespace(line[idx + 1])
    THEN <<idx, idx>>
    ELSE ArgScan(line, idx, 0, 0, FALSE)

\* the Range<usize> as <<start, end>>
arg_range_at(line, idx) == ArgScan(line, idx, 0, 0, FALSE)

\* Range::is_empty
RangeIsEmpty(r) == ~(r[1] < r[2])

-----------------------------------------------------------------------------
(* Public operations of TextField                                          *)

\* TextField::new; TextField::default() is new of the empty string
new(t) == Field(t, Len(t), None)

\* cursor_set: select_drop() + the Status of the move to byte offset new_char
cursor_set(f, new_char) ==
    LET a == select_drop(f)
    IN  IF Len(a.f.text) < new_char
        THEN IF a.f.char = Len(a.f.text) THEN Steps(a.f, <<a.st, Skipped>>)
             ELSE Steps([a.f EXCEPT !.char = Len(a.f.text)], <<a.st, UpdatedCursor>>)
        ELSE IF new_char = a.f.char THEN Steps(a.f, <<a.st, Skipped>>)
        ELSE Steps([a.f EXCEPT !.char = new_char], <<a.st, UpdatedCursor>>)

text_set(f, t) == Res([f EXCEPT !.select = None, !.text = t, !.char = Len(t)], Skipped)

text_take(f) ==
    [f |-> [f EXCEPT !.char = 0, !.select = None, !.text = <<>>],
     st |-> Skipped, clip |-> Some(f.text), parts |-> <<>>]

\* select_token_at_cursor without the check for an unchanged selection
select_token_at_cursor_always_updates(f) ==
    LET token_range == arg_range_at(f.text, f.char)
    IN  IF RangeIsEmpty(token_range) THEN Res(f, Skipped)
        ELSE Res([f EXCEPT !.select = Some(token_range), !.char = token_range[2]],
                 UpdatedCursor)

select_token_at_cursor(f) ==
    LET token_range == arg_range_at(f.text, f.char)
        new_select == Some(token_range)
    IN  IF RangeIsEmpty(token_range) THEN Res(f, Skipped)
        ELSE IF f.select = new_select /\ f.char = token_range[2] THEN Res(f, Skipped)
        ELSE Res([f EXCEPT !.select = new_select, !.char = token_range[2]],
                 UpdatedCursor)

\* str::get of the token range: None for a range that is no valid slice
get_token_at_cursor(f) ==
    LET token_range == arg_range_at(f.text, f.char)
    IN  [f |-> f, st |-> Skipped, parts |-> <<>>,
         clip |-> IF SliceOk(f.text, token_range[1], token_range[2])
                  THEN Some(Slice(f.text, token_range[1], token_range[2]))
                  ELSE None]

\* replace_token placing the cursor after the old end of the token
replace_token_cursor_from_end(f, new_str) ==
    LET token_range == arg_range_at(f.text, f.char)
        moved == [f EXCEPT !.char = Len(new_str) + token_range[2], !.select = None]
    IN  Res([moved EXCEPT
                !.text = Slice(f.text, 0, token_range[1]) \o new_str
                           \o Slice(f.text, token_range[2], Len(f.text))],
            Skipped)

replace_token(f, new_str) ==
    LET token_range == arg_range_at(f.text, f.char)
        moved == [f EXCEPT !.char = Len(new_str) + token_range[1], !.select = None]
    IN  IF ~SliceOk(f.text, token_range[1], token_range[2]) THEN Panic(moved)
        ELSE Res([moved EXCEPT
                    !.text = Slice(f.text, 0, token_range[1]) \o new_str
                               \o Slice(f.text, token_range[2], Len(f.text))],
                 Skipped)

\* String::insert / String::insert_str at the cursor, then char += len
InsertAtCursor(f, s) ==
    IF f.panic THEN f
    ELSE IF ~(f.char <= Len(f.text) /\ is_char_boundary(f.text, f.char))
         THEN [f EXCEPT !.panic = TRUE]
    ELSE [f EXCEPT !.text = Slice(f.text, 0, f.char) \o s
                              \o Slice(f.text, f.char, Len(f.text)),
                   !.char = f.char + Len(s)]

\* String::remove at the cursor
RemoveAtCursor(f) ==
    IF f.panic THEN f
    ELSE IF ~(f.char < Len(f.text) /\ is_char_boundary(f.text, f.char))
         THEN [f EXCEPT !.panic = TRUE]
    ELSE [f EXCEPT !.text = Slice(f.text, 0, f.char)
                              \o Slice(f.text, f.char + len_utf8(f.text[f.char + 1]),
                                       Len(f.text))]

\* paste_passthrough consuming the selection before it looks for a newline
paste_takes_before_check(f, clip) ==
    LET taken == take_selected(f)
    IN  IF contains_newline(clip) THEN Res(taken.f, Skipped)
        ELSE Took(Res(InsertAtCursor(taken.f, clip), Updated), taken)

\* paste_passthrough inserting the clip without advancing the cursor past it
paste_keeps_cursor(f, clip) ==
    IF contains_newline(clip) THEN Res(f, Skipped)
    ELSE LET taken == take_selected(f)
         IN  Took(Res([InsertAtCursor(taken.f, clip) EXCEPT !.char = taken.f.char],
                      Updated), taken)

paste_passthrough(f, clip) ==
    IF contains_newline(clip) THEN Res(f, Skipped)
    ELSE LET taken == take_selected(f)
         IN  Took(Res(InsertAtCursor(taken.f, clip), Updated), taken)

\* cut reading the selection without removing it
cut_as_copy(f) == get_selected(f)

copy(f) == get_selected(f)

cut(f) == take_selected(f)

\* select_all without the check for an unchanged selection
select_all_always_updates(f) ==
    IF f.text = <<>> THEN Res(f, Skipped)
    ELSE Res([f EXCEPT !.select = Some(<<0, Len(f.text)>>), !.char = Len(f.text)],
             UpdatedCursor)

select_all(f) ==
    IF f.text = <<>> THEN Res(f, Skipped)
    ELSE LET new_select == Some(<<0, Len(f.text)>>)
         IN  IF f.char = Len(f.text) /\ f.select = new_select THEN Res(f, Skipped)
             ELSE Res([f EXCEPT !.select = new_select, !.char = Len(f.text)],
                      UpdatedCursor)

start_of_line(f) ==
    IF f.char = 0 /\ f.select = None THEN Res(f, Skipped)
    ELSE Res([f EXCEPT !.char = 0, !.select = None], UpdatedCursor)

end_of_line(f) ==
    IF f.char = Len(f.text) /\ f.select = None THEN Res(f, Skipped)
    ELSE Res([f EXCEPT !.char = Len(f.text), !.select = None], UpdatedCursor)

\* push_char dropping the selection instead of consuming the selected text
push_char_keeps_selected_text(f, ch) ==
    Res(InsertAtCursor(select_drop(f).f, ch), Updated)

push_char(f, ch) ==
    LET taken == take_selected(f)
    IN  Took(Res(InsertAtCursor(taken.f, ch), Updated), taken)

\* del going on to remove the character at the cursor after it removed the
\* selection
del_no_early_return(f) ==
    LET taken == take_selected(f)
    IN  IF taken.f.char < Len(taken.f.text) /\ taken.f.text # <<>>
        THEN Took(Res(RemoveAtCursor(taken.f), Updated), taken)
        ELSE IF taken.clip # None THEN Took(Res(taken.f, Updated), taken)
        ELSE Res(taken.f, Skipped)

del(f) ==
    LET taken == take_selected(f)
    IN  IF taken.clip # None THEN Took(Res(taken.f, Updated), taken)
        ELSE IF taken.f.char < Len(taken.f.text) /\ taken.f.text # <<>>
             THEN Res(RemoveAtCursor(taken.f), Updated)
        ELSE Res(taken.f, Skipped)

\* backspace removing at the cursor without stepping back first
backspace_forgets_prev_char(f) ==
    LET taken == take_selected(f)
    IN  IF taken.clip # None THEN Took(Res(taken.f, Updated), taken)
        ELSE IF taken.f.char > 0 /\ taken.f.text # <<>>
             THEN Res(RemoveAtCursor(taken.f), Updated)
        ELSE Res(taken.f, Skipped)

backspace(f) ==
    LET taken == take_selected(f)
    IN  IF taken.clip # None THEN Took(Res(taken.f, Updated), taken)
        ELSE IF taken.f.char > 0 /\ taken.f.text # <<>>
             THEN Res(RemoveAtCursor(prev_char(taken.f).f), Updated)
        ELSE Res(taken.f, Skipped)

\* go_left reporting only whether the cursor moved
go_left_forgets_drop(f) ==
    LET a == select_drop(f)
        b == prev_char(a.f)
    IN  Steps(b.f, <<Skipped, b.st>>)

go_left(f) ==
    LET a == select_drop(f)
        b == prev_char(a.f)
    IN  Steps(b.f, <<a.st, b.st>>)

select_left(f) ==
    LET a == init_select(f)
        b == prev_char(a.f)
        c == push_select(b.f)
    IN  Steps(c.f, <<a.st, b.st, c.st>>)

jump_left(f) ==
    LET a == select_drop(f)
        b == prev_char(a.f)
        c == jump_left_move(b.f)
    IN  Steps(c.f, <<a.st, b.st, c.st>>)

select_jump_left(f) ==
    LET a == init_select(f)
        b == prev_char(a.f)
        c == jump_left_move(b.f)
        d == push_select(c.f)
    IN  Steps(d.f, <<a.st, b.st, c.st, d.st>>)

\* go_right reporting only whether the cursor moved
go_right_forgets_drop(f) ==
    LET a == select_drop(f)
        b == next_char(a.f)
    IN  Steps(b.f, <<Skipped, b.st>>)

go_right(f) ==
    LET a == select_drop(f)
        b == next_char(a.f)
    IN  Steps(b.f, <<a.st, b.st>>)

select_right(f) ==
    LET a == init_select(f)
        b == next_char(a.f)
        c == push_select(b.f)
    IN  Steps(c.f, <<a.st, b.st, c.st>>)

jump_right(f) ==
    LET a == select_drop(f)
        b == next_char(a.f)
        c == jump_right_move(b.f)
    IN  Steps(c.f, <<a.st, b.st, c.st>>)

select_jump_right(f) ==
    LET a == init_select(f)
        b == next_char(a.f)
        c == jump_right_move(b.f)
        d == push_select(c.f)
    IN  Steps(d.f, <<a.st, b.st, c.st, d.st>>)

-----------------------------------------------------------------------------
(* Key events: [code, ch, mods], ch being the character of a Char code and *)
(* mods the set of modifiers held.                                         *)

SHIFT == "SHIFT"
CONTROL == "CONTROL"

KeyModifiers == SUBSET {SHIFT, CONTROL}

KeyEvent(code, ch, mods) == [code |-> code, ch |-> ch, mods |-> mods]

\* the key codes map names, and two it does not
KeyCodes == {"Delete", "Backspace", "Home", "End", "Left", "Right", "Esc", "Up"}

Keys ==
    {KeyEvent("Char", ch, mods) : ch \in KeyChars, mods \in KeyModifiers}
        \cup {KeyEvent(code, <<>>, mods) : code \in KeyCodes, mods \in KeyModifiers}

\* move_left taking the jump on SHIFT instead of CONTROL
move_left_jumps_on_shift(f, mods) ==
    LET should_select == SHIFT \in mods
        a == IF should_select THEN init_select(f) ELSE select_drop(f)
        b == prev_char(a.f)
        c == IF SHIFT \in mods THEN jump_left_move(b.f) ELSE Res(b.f, Skipped)
        d == IF should_select THEN push_select(c.f) ELSE Res(c.f, Skipped)
    IN  Res(d.f, AddAssign(AddAssign(AddAssign(a.st, b.st), c.st), d.st))

move_left(f, mods) ==
    LET should_select == SHIFT \in mods
        a == IF should_select THEN init_select(f) ELSE select_drop(f)
        b == prev_char(a.f)
        c == IF CONTROL \in mods THEN jump_left_move(b.f) ELSE Res(b.f, Skipped)
        d == IF should_select THEN push_select(c.f) ELSE Res(c.f, Skipped)
    IN  Res(d.f, AddAssign(AddAssign(AddAssign(a.st, b.st), c.st), d.st))

\* the Status of jump_right_move is dropped
move_right(f, mods) ==
    LET should_select == SHIFT \in mods
        a == IF should_select THEN init_select(f) ELSE select_drop(f)
        b == next_char(a.f)
        c == IF CONTROL \in mods THEN jump_right_move(b.f) ELSE Res(b.f, Skipped)
        d == IF should_select THEN push_select(c.f) ELSE Res(c.f, Skipped)
    IN  Res(d.f, AddAssign(AddAssign(a.st, b.st), d.st))

\* Some(status) of map: the field after the call and the Status
Mapped(r) == [f |-> r.f, st |-> r.st, some |-> TRUE]

\* map pushing every character, whatever the modifiers
map_pushes_control_chars(f, key) ==
    IF key.code = "Char" /\ key.ch = LatinA /\ key.mods = {CONTROL}
        THEN Mapped(select_all(f))
    ELSE IF key.code = "Char" THEN Mapped(push_char(f, key.ch))
    ELSE IF key.code = "Delete" THEN Mapped(del(f))
    ELSE IF key.code = "Backspace" THEN Mapped(backspace(f))
    ELSE IF key.code = "Home" THEN Mapped(start_of_line(f))
    ELSE IF key.code = "End" THEN Mapped(end_of_line(f))
    ELSE IF key.code = "Left" THEN Mapped(move_left(f, key.mods))
    ELSE IF key.code = "Right" THEN Mapped(move_right(f, key.mods))
    ELSE [f |-> f, st |-> Skipped, some |-> FALSE]

\* TextField::map: the arms of the match in order; some is FALSE for None
map(f, key) ==
    IF key.code = "Char" /\ key.ch = LatinA /\ key.mods = {CONTROL}
        THEN Mapped(select_all(f))
    ELSE IF key.code = "Char" /\ CONTROL \notin key.mods
        THEN Mapped(push_char(f, key.ch))
    ELSE IF key.code = "Delete" THEN Mapped(del(f))
    ELSE IF key.code = "Backspace" THEN Mapped(backspace(f))
    ELSE IF key.code = "Home" THEN Mapped(start_of_line(f))
    ELSE IF key.code = "End" THEN Mapped(end_of_line(f))
    ELSE IF key.code = "Left" THEN Mapped(move_left(f, key.mods))
    ELSE IF key.code = "Right" THEN Mapped(move_right(f, key.mods))
    ELSE [f |-> f, st |-> Skipped, some |-> FALSE]

-----------------------------------------------------------------------------
(* Width-safe truncation and the line builder                              *)

\* the loop of truncate_if_wider from byte offset end on: <<TRUE, prefix>> for
\* Ok(prefix) and <<FALSE, width>> for Err(width)
RECURSIVE TruncScan(_, _, _, _)
TruncScan(t, w, end, current_width) ==
    IF end >= Len(t) THEN <<FALSE, current_width>>
    ELSE LET grown == current_width + char_width(t[end + 1])
         IN  IF grown > w THEN <<TRUE, Slice(t, 0, end)>>
             ELSE TruncScan(t, w, end + len_utf8(t[end + 1]), grown)

truncate_if_wider(t, w) == TruncScan(t, w, 0, 0)

\* one instruction received by the backend
Printed(t, style) == [kind |-> "print", text |-> t, style |-> style, n |-> 0]
Padded(n) == [kind |-> "pad", text |-> <<>>, style |-> "default", n |-> n]

\* the printed segments the backend received, without the padding
Prints(o) == SelectSeq(o, LAMBDA e : e.kind = "print")

\* Line::unsafe_builder, without the go_to that precedes the builder's output
Builder(w) == [remaining |-> w, out |-> <<>>, panic |-> FALSE]

\* the LineBuilder a caller holds between calls: the width of its Line, its
\* remaining counter and whether it was dropped; NoBuilder when there is none
LineBuilder(w, remaining, dropped) ==
    [line |-> w, remaining |-> remaining, dropped |-> dropped]
NoBuilder == LineBuilder(0, 0, TRUE)

\* a push that prints a text that fits without counting its width
push_styled_uncounted(b, t, style) ==
    LET tr == truncate_if_wider(t, b.remaining)
    IN  IF tr[1]
        THEN [b EXCEPT !.out = Append(b.out, Printed(tr[2], style)),
                       !.remaining = 0]
        ELSE [b EXCEPT !.out = Append(b.out, Printed(t, style))]

\* LineBuilder::push_styled; LineBuilder::push is push_styled in the backend's
\* default style
push_styled(b, t, style) ==
    IF b.panic THEN b
    ELSE LET tr == truncate_if_wider(t, b.remaining)
         IN  IF tr[1]
             THEN [b EXCEPT !.out = Append(b.out, Printed(tr[2], style)),
                            !.remaining = 0]
             ELSE [b EXCEPT !.out = Append(b.out, Printed(t, style)),
                            !.remaining = b.remaining - tr[2]]

push(b, t) == push_styled(b, t, "default")

\* the bool push and push_styled return: false from the Ok arm of
\* truncate_if_wider, true from the Err arm
push_returns(b, t) == ~truncate_if_wider(t, b.remaining)[1]

\* LineBuilder::pad
pad(b) ==
    IF b.remaining = 0 THEN b
    ELSE [b EXCEPT !.out = Append(b.out, Padded(b.remaining)), !.remaining = 0]

\* a push of self.text[a..e]: the slice is taken first and may panic
PushSlice(b, t, a, e, style) ==
    IF b.panic THEN b
    ELSE IF ~SliceOk(t, a, e) THEN [b EXCEPT !.panic = TRUE]
    ELSE push_styled(b, Slice(t, a, e), style)

\* impl Drop for LineBuilder (it also runs when a panic unwinds)
Drop(b) ==
    IF b.remaining # 0 THEN [b EXCEPT !.out = Append(b.out, Padded(b.remaining))]
    ELSE b

-----------------------------------------------------------------------------
(* Rendering                                                               *)

\* the loop of calculate_width_offset from byte offset pos on
RECURSIVE OffsetScan(_, _, _, _, _)
OffsetScan(t, c, pos, cursor_prefix_w, max_width) ==
    IF pos >= c THEN c
    ELSE IF max_width > cursor_prefix_w THEN pos
    ELSE LET ch_width == char_width(t[pos + 1])
         IN  OffsetScan(t, c, pos + len_utf8(t[pos + 1]),
                        IF cursor_prefix_w > ch_width
                        THEN cursor_prefix_w - ch_width ELSE 0,
                        max_width)

\* calculate_width_offset that never scrolls
calculate_width_offset_no_scroll(f, max_width) == 0

calculate_width_offset(f, max_width) ==
    IF f.char + 1 < max_width THEN 0
    ELSE OffsetScan(f.text, f.char, 0, width(Slice(f.text, 0, f.char)) + 2, max_width)

\* Option<Range>: the byte range of the character at the cursor
get_cursor_range(f) ==
    IF f.char < Len(f.text)
    THEN Some(<<f.char, f.char + len_utf8(f.text[f.char + 1])>>)
    ELSE None

\* text_cursor pushing the text from the start of the cursor character again
text_cursor_repeats_cursor(f, b0) ==
    LET offset == calculate_width_offset(f, b0.remaining)
        cursor == get_cursor_range(f)
    IN  IF cursor # None
        THEN LET start == cursor[1][1]
                 end == cursor[1][2]
                 b1 == PushSlice(b0, f.text, offset, start, "default")
                 b2 == PushSlice(b1, f.text, start, end, "cursor")
             IN  PushSlice(b2, f.text, start, Len(f.text), "default")
        ELSE LET b1 == PushSlice(b0, f.text, offset, Len(f.text), "default")
             IN  push_styled(b1, Space, "cursor")

text_cursor(f, b0) ==
    IF ~SliceOk(f.text, 0, f.char) THEN [b0 EXCEPT !.panic = TRUE]
    ELSE
    LET offset == calculate_width_offset(f, b0.remaining)
        cursor == get_cursor_range(f)
    IN  IF cursor # None
        THEN LET start == cursor[1][1]
                 end == cursor[1][2]
                 b1 == PushSlice(b0, f.text, offset, start, "default")
                 b2 == PushSlice(b1, f.text, start, end, "cursor")
             IN  PushSlice(b2, f.text, end, Len(f.text), "default")
        ELSE LET b1 == PushSlice(b0, f.text, offset, Len(f.text), "default")
             IN  push_styled(b1, Space, "cursor")

text_cursor_select(f, from0, to, b0) ==
    IF ~SliceOk(f.text, 0, f.char) THEN [b0 EXCEPT !.panic = TRUE]
    ELSE
    LET offset == calculate_width_offset(f, b0.remaining)
        b1 == IF offset < from0 THEN PushSlice(b0, f.text, offset, from0, "default")
              ELSE b0
        from == IF offset < from0 THEN from0 ELSE offset
        cursor == get_cursor_range(f)
    IN  IF cursor # None
        THEN LET start == cursor[1][1]
                 end == cursor[1][2]
             IN  IF from = start
                 THEN LET b2 == PushSlice(b1, f.text, start, end, "cursor")
                          b3 == PushSlice(b2, f.text, end, to, "select")
                      IN  PushSlice(b3, f.text, to, Len(f.text), "default")
                 ELSE LET b2 == PushSlice(b1, f.text, from, start, "select")
                          b3 == PushSlice(b2, f.text, start, end, "cursor")
                      IN  PushSlice(b3, f.text, end, Len(f.text), "default")
        ELSE LET b2 == PushSlice(b1, f.text, from, Len(f.text), "select")
             IN  push_styled(b2, Space, "cursor")

\* the builder is consumed: it is dropped when the call returns or unwinds
insert_formatted_text(f, line_builder) ==
    IF line_builder.remaining = 0 THEN Drop(line_builder)
    ELSE LET sel == Normalized(f.select)
         IN  IF sel # None /\ sel[1][1] # sel[1][2]
             THEN Drop(text_cursor_select(f, sel[1][1], sel[1][2], line_builder))
             ELSE Drop(text_cursor(f, line_builder))

\* the decimal digits of format!("{len}") for len < 100
Digits(len) ==
    LET digit(d) == <<"0", "1", "2", "3", "4", "5", "6", "7", "8", "9">>[d + 1]
    IN  IF len < 10 THEN <<digit(len)>>
        ELSE <<digit(len \div 10), digit(len % 10)>>

count_as_string(len) ==
    IF len < 10 THEN <<" ", " ">> \o Digits(len)
    ELSE IF len < 100 THEN <<" ">> \o Digits(len)
    ELSE <<"9", "9", "+">>

\* the prompt " >> " that both widgets push before the text
Prompt == <<" ", ">", ">", " ">>

\* line is the width of the Line the builder is made from
widget(f, line) == insert_formatted_text(f, push(Builder(line), Prompt))

widget_with_count(f, line, count) ==
    insert_formatted_text(f, push(push(Builder(line), count_as_string(count)), Prompt))

-----------------------------------------------------------------------------
(* The state machine                                                       *)

Self == [text |-> text, char |-> char, select |-> select, panic |-> FALSE]

\* the field after construction
Init ==
    \E t \in Texts :
        /\ text = new(t).text
        /\ char = new(t).char
        /\ select = new(t).select
        /\ status = None
        /\ parts = <<>>
        /\ ret = None
        /\ op = "new"
        /\ arg = Some(t)
        /\ out = <<>>
        /\ panicked = FALSE
        /\ builder = NoBuilder

\* a call of a method on the field: r is its result, returns_status whether the
\* method returns a Status; the text is kept within MaxChars characters
Call(name, input, r, returns_status) ==
    /\ char_len(r.f.text) <= MaxChars
    /\ text' = r.f.text
    /\ char' = r.f.char
    /\ select' = r.f.select
    /\ panicked' = r.f.panic
    /\ status' = IF returns_status /\ ~r.f.panic THEN Some(r.st) ELSE None
    /\ parts' = IF r.f.panic THEN <<>> ELSE r.parts
    /\ ret' = r.clip
    /\ op' = name
    /\ arg' = input
    /\ out' = <<>>
    /\ UNCHANGED builder

TextSet ==
    /\ ~panicked
    /\ \E t \in NewTexts : Call("text_set", Some(t), text_set(Self, t), FALSE)

TextTake ==
    /\ ~panicked
    /\ Call("text_take", None, text_take(Self), FALSE)

SelectTokenAtCursor ==
    /\ ~panicked
    /\ Call("select_token_at_cursor", None, select_token_at_cursor(Self), TRUE)

ReplaceToken ==
    /\ ~panicked
    /\ \E s \in NewTexts : Call("replace_token", Some(s), replace_token(Self, s), FALSE)

PastePassthrough ==
    /\ ~panicked
    /\ \E s \in Clips :
          Call("paste_passthrough", Some(s), paste_passthrough(Self, s), TRUE)

Copy ==
    /\ ~panicked
    /\ Call("copy", None, copy(Self), FALSE)

Cut ==
    /\ ~panicked
    /\ Call("cut", None, cut(Self), FALSE)

SelectAll ==
    /\ ~panicked
    /\ Call("select_all", None, select_all(Self), TRUE)

StartOfLine ==
    /\ ~panicked
    /\ Call("start_of_line", None, start_of_line(Self), TRUE)

EndOfLine ==
    /\ ~panicked
    /\ Call("end_of_line", None, end_of_line(Self), TRUE)

PushChar ==
    /\ ~panicked
    /\ \E ch \in TextChars : Call("push_char", Some(ch), push_char(Self, ch), TRUE)

Del ==
    /\ ~panicked
    /\ Call("del", None, del(Self), TRUE)

Backspace ==
    /\ ~panicked
    /\ Call("backspace", None, backspace(Self), TRUE)

GoLeft ==
    /\ ~panicked
    /\ Call("go_left", None, go_left(Self), TRUE)

SelectLeft ==
    /\ ~panicked
    /\ Call("select_left", None, select_left(Self), TRUE)

JumpLeft ==
    /\ ~panicked
    /\ Call("jump_left", None, jump_left(Self), TRUE)

SelectJumpLeft ==
    /\ ~panicked
    /\ Call("select_jump_left", None, select_jump_left(Self), TRUE)

GoRight ==
    /\ ~panicked
    /\ Call("go_right", None, go_right(Self), TRUE)

SelectRight ==
    /\ ~panicked
    /\ Call("select_right", None, select_right(Self), TRUE)

JumpRight ==
    /\ ~panicked
    /\ Call("jump_right", None, jump_right(Self), TRUE)

SelectJumpRight ==
    /\ ~panicked
    /\ Call("select_jump_right", None, select_jump_right(Self), TRUE)

\* a render that leaves its output in the backend: the field is borrowed
\* immutably
Render(name, input, b) ==
    /\ out' = b.out
    /\ panicked' = b.panic
    /\ op' = name
    /\ arg' = input
    /\ status' = None
    /\ parts' = <<>>
    /\ ret' = None
    /\ UNCHANGED <<text, char, select, builder>>

\* a render that stores its scroll offset in the cursor of the field
InsertFormattedTextScrolls ==
    /\ ~panicked
    /\ \E w \in 0..MaxWidth :
          LET b == insert_formatted_text(Self, Builder(w))
          IN  /\ out' = b.out
              /\ panicked' = b.panic
              /\ op' = "insert_formatted_text"
              /\ arg' = Some(w)
              /\ status' = None
              /\ parts' = <<>>
              /\ ret' = None
              /\ char' = calculate_width_offset(Self, w)
              /\ UNCHANGED <<text, select, builder>>

\* insert_formatted_text into a builder of w columns: the field is borrowed
\* immutably, the backend receives out
InsertFormattedText ==
    /\ ~panicked
    /\ \E w \in 0..MaxWidth :
          LET b == insert_formatted_text(Self, Builder(w))
          IN  /\ out' = b.out
              /\ panicked' = b.panic
              /\ op' = "insert_formatted_text"
              /\ arg' = Some(w)
              /\ status' = None
              /\ parts' = <<>>
              /\ ret' = None
              /\ UNCHANGED <<text, char, select, builder>>

\* the editing operations
Next ==
    \/ TextSet \/ TextTake \/ SelectTokenAtCursor \/ ReplaceToken
    \/ PastePassthrough \/ Copy \/ Cut \/ SelectAll \/ StartOfLine \/ EndOfLine
    \/ PushChar \/ Del \/ Backspace
    \/ GoLeft \/ SelectLeft \/ JumpLeft \/ SelectJumpLeft
    \/ GoRight \/ SelectRight \/ JumpRight \/ SelectJumpRight

Spec == Init /\ [][Next]_vars

\* the byte offsets handed to cursor_set: every offset of the longest text and
\* one beyond it
CursorArgs == 0..(4 * MaxChars + 1)

CursorSet ==
    /\ ~panicked
    /\ \E n \in CursorArgs : Call("cursor_set", Some(n), cursor_set(Self, n), TRUE)

\* the editing operations and cursor_set
SpecCursor == Init /\ [][Next \/ CursorSet]_vars

\* the editing operations and the renderer
NextRender == Next \/ InsertFormattedText

SpecRender == Init /\ [][NextRender]_vars

\* copy() returning Some(clip), then paste_passthrough(clip) with the selection
\* still active
CopyPaste ==
    /\ ~panicked
    /\ LET copied == copy(Self)
       IN  /\ copied.clip # None
           /\ Call("copy_paste", copied.clip,
                   paste_passthrough(copied.f, copied.clip[1]), TRUE)

\* copy() returning Some(clip), then select_drop(), then paste_passthrough(clip)
CopyDropPaste ==
    /\ ~panicked
    /\ LET copied == copy(Self)
       IN  /\ copied.clip # None
           /\ Call("copy_drop_paste", copied.clip,
                   paste_passthrough(select_drop(copied.f).f, copied.clip[1]), TRUE)

\* cut() returning Some(clip), then paste_passthrough(clip)
CutPaste ==
    /\ ~panicked
    /\ LET taken == cut(Self)
       IN  /\ taken.clip # None
           /\ Call("cut_paste", taken.clip,
                   paste_passthrough(taken.f, taken.clip[1]), TRUE)

\* the editing operations and the copy / paste and cut / paste round trips
NextRoundTrip == Next \/ CopyPaste \/ CopyDropPaste \/ CutPaste

SpecRoundTrip == Init /\ [][NextRoundTrip]_vars

GetTokenAtCursor ==
    /\ ~panicked
    /\ Call("get_token_at_cursor", None, get_token_at_cursor(Self), FALSE)

\* the editing operations and the token query
\* replace_token(new), then get_token_at_cursor() on the field it left
ReplaceGet ==
    /\ ~panicked
    /\ \E s \in StrsUpTo(TextChars, 2) :
          LET replaced == replace_token(Self, s)
          IN  /\ ~replaced.f.panic
              /\ Call("replace_get", Some(s), get_token_at_cursor(replaced.f), FALSE)

NextToken == Next \/ GetTokenAtCursor \/ ReplaceGet

SpecToken == Init /\ [][NextToken]_vars

\* the widths of the lines a widget is drawn in, from the width the prefix
\* takes to MaxWidth columns left for the text, and the counts shown
LineWidths(prefix) == Len(prefix)..(Len(prefix) + MaxWidth)
Counts == {9, 10, 100}

Widget ==
    /\ ~panicked
    /\ \E line \in LineWidths(Prompt) :
          Render("widget", Some(line), widget(Self, line))

\* the line leaves MaxWidth columns for the text
WidgetWithCount ==
    /\ ~panicked
    /\ \E count \in Counts :
          LET line == Len(count_as_string(count) \o Prompt) + MaxWidth
          IN  Render("widget_with_count", Some(<<line, count>>),
                     widget_with_count(Self, line, count))

\* the three renders and the movements that take the field from new(text), for
\* every text, to every cursor and selection
NextWidget ==
    \/ InsertFormattedText \/ Widget \/ WidgetWithCount
    \/ StartOfLine \/ EndOfLine \/ SelectAll
    \/ GoLeft \/ SelectLeft \/ GoRight \/ SelectRight

SpecWidget == Init /\ [][NextWidget]_vars

\* a field constructed for key events
InitMap ==
    \E t \in StrsUpTo(KeyChars, MaxKeyChars) :
        /\ text = new(t).text
        /\ char = new(t).char
        /\ select = new(t).select
        /\ status = None
        /\ parts = <<>>
        /\ ret = None
        /\ op = "new"
        /\ arg = None
        /\ out = <<>>
        /\ panicked = FALSE
        /\ builder = NoBuilder

\* map(key): status is the Option<Status> it returns; the text is kept within
\* MaxKeyChars characters
Map ==
    /\ ~panicked
    /\ \E key \in Keys :
          LET r == map(Self, key)
          IN  /\ char_len(r.f.text) <= MaxKeyChars
              /\ Call("map", Some(key), Res(r.f, r.st), r.some)

SpecMap == InitMap /\ [][Map]_vars

-----------------------------------------------------------------------------
(* The UTFSafe string utilities, called on a str / String held in text      *)

\* the strings the utilities are called on: they may hold a control character,
\* whose UnicodeWidthChar::width is None
UtilTexts == StrsUpTo(TextChars \cup {Newline}, MaxChars)

\* truncate_width returning the whole budget instead of what is left of it
truncate_width_full_budget(t, w) ==
    LET RECURSIVE scan(_, _)
        scan(end, wd) ==
            IF end >= Len(t) THEN <<w, t>>
            ELSE LET cw == char_width(t[end + 1])
                 IN  IF cw > wd THEN <<w, Slice(t, 0, end)>>
                     ELSE scan(end + len_utf8(t[end + 1]), wd - cw)
    IN  scan(0, w)

\* (width, &str): the loop over self.chars() from byte offset end on
truncate_width(t, w) ==
    LET RECURSIVE scan(_, _)
        scan(end, wd) ==
            IF end >= Len(t) THEN <<wd, t>>
            ELSE LET cw == char_width(t[end + 1])
                 IN  IF cw > wd THEN <<wd, Slice(t, 0, end)>>
                     ELSE scan(end + len_utf8(t[end + 1]), wd - cw)
    IN  scan(0, w)

\* the loop over self.chars().rev(): start bytes are taken from the end
truncate_width_start(t, w) ==
    LET RECURSIVE scan(_, _)
        scan(start, wd) ==
            IF start >= Len(t) THEN <<wd, t>>
            ELSE LET from == PrevStart(t, Len(t) - start)
                     cw == char_width(t[from + 1])
                 IN  IF cw > wd THEN <<wd, Slice(t, Len(t) - start, Len(t))>>
                     ELSE scan(Len(t) - from, wd - cw)
    IN  scan(0, w)

\* a string the utilities are called on
InitUtils ==
    \E t \in UtilTexts :
        /\ text = t
        /\ char = 0
        /\ select = None
        /\ status = None
        /\ parts = <<>>
        /\ ret = None
        /\ op = "new"
        /\ arg = Some(t)
        /\ out = <<>>
        /\ panicked = FALSE
        /\ builder = NoBuilder

\* a call of a utility on the string: t is the string after it, r what it
\* returned, p whether it panicked
UtilCall(name, input, t, r, p) ==
    /\ ~panicked
    /\ char_len(t) <= MaxChars
    /\ text' = t
    /\ ret' = r
    /\ panicked' = p
    /\ op' = name
    /\ arg' = input
    /\ UNCHANGED <<char, select, status, parts, out, builder>>

TruncateWidth ==
    \E w \in 0..MaxWidth :
        UtilCall("truncate_width", Some(w), text, Some(truncate_width(text, w)), FALSE)

TruncateWidthStart ==
    \E w \in 0..MaxWidth :
        UtilCall("truncate_width_start", Some(w), text,
                 Some(truncate_width_start(text, w)), FALSE)

\* Option<usize>: text.char_indices().nth(idx - 1) mapped to the end of that
\* character
maybe_prev_char_bytes_end(t, idx) ==
    IF idx = 0 THEN Some(idx)
    ELSE LET RECURSIVE nth(_, _)
             nth(byte_idx, n) ==
                 IF byte_idx >= Len(t) THEN None
                 ELSE IF n = 0 THEN Some(byte_idx + len_utf8(t[byte_idx + 1]))
                 ELSE nth(byte_idx + len_utf8(t[byte_idx + 1]), n - 1)
         IN  nth(0, idx - 1)

\* [val |-> Option<&str>, ub |-> whether get_unchecked was called with a range
\* whose start is after its end, which is undefined behaviour]
get_char_range(t, from, to) ==
    LET from_checked == maybe_prev_char_bytes_end(t, from)
        to_checked == maybe_prev_char_bytes_end(t, to)
    IN  IF from_checked = None \/ to_checked = None THEN [val |-> None, ub |-> FALSE]
        ELSE IF from_checked[1] > to_checked[1] THEN [val |-> None, ub |-> TRUE]
        ELSE [val |-> Some(Slice(t, from_checked[1], to_checked[1])), ub |-> FALSE]

get_from_char(t, from) ==
    LET from_checked == maybe_prev_char_bytes_end(t, from)
    IN  IF from_checked = None THEN None
        ELSE Some(Slice(t, from_checked[1], Len(t)))

get_to_char(t, to) ==
    LET to_checked == maybe_prev_char_bytes_end(t, to)
    IN  IF to_checked = None THEN None
        ELSE Some(Slice(t, 0, to_checked[1]))

\* what a str built by get_unchecked from an inverted range stands for: memory
\* that is not a part of the text
NotInText == <<"?">>

\* the character indices the utilities are called with
CharIdxs == 0..(MaxChars + 1)

\* get_unchecked with an inverted range either trips the precondition check
\* of a build with debug assertions or returns a str that is not in the text
GetCharRange ==
    \E from \in CharIdxs, to \in CharIdxs :
        LET r == get_char_range(text, from, to)
        IN  IF r.ub
            THEN \/ UtilCall("get_char_range", Some(<<from, to>>), text, None, TRUE)
                 \/ UtilCall("get_char_range", Some(<<from, to>>), text,
                             Some(NotInText), FALSE)
            ELSE UtilCall("get_char_range", Some(<<from, to>>), text, r.val, FALSE)

GetFromChar ==
    \E from \in CharIdxs :
        UtilCall("get_from_char", Some(from), text, get_from_char(text, from), FALSE)

GetToChar ==
    \E to \in CharIdxs :
        UtilCall("get_to_char", Some(to), text, get_to_char(text, to), FALSE)

\* a string and the calls that read it
SpecUtils ==
    InitUtils /\ [][\/ TruncateWidth \/ TruncateWidthStart
                    \/ GetCharRange \/ GetFromChar \/ GetToChar]_vars

\* prev_char_bytes_end counting characters from 1
prev_char_bytes_end_from_one(t, idx) ==
    LET RECURSIVE nth(_, _)
        nth(byte_idx, n) ==
            IF byte_idx >= Len(t) THEN [panic |-> TRUE, byte |-> 0]
            ELSE IF n = 0 THEN [panic |-> FALSE, byte |-> byte_idx]
            ELSE nth(byte_idx + len_utf8(t[byte_idx + 1]), n - 1)
    IN  IF idx = 0 THEN [panic |-> FALSE, byte |-> 0] ELSE nth(0, idx - 1)

\* [panic, byte]: the byte offset after the idx-th character, or the panic!
prev_char_bytes_end(t, idx) ==
    LET RECURSIVE nth(_, _)
        nth(byte_idx, n) ==
            IF byte_idx >= Len(t) THEN [panic |-> TRUE, byte |-> 0]
            ELSE IF n = 0
            THEN [panic |-> FALSE, byte |-> byte_idx + len_utf8(t[byte_idx + 1])]
            ELSE nth(byte_idx + len_utf8(t[byte_idx + 1]), n - 1)
    IN  IF idx = 0 THEN [panic |-> FALSE, byte |-> 0] ELSE nth(0, idx - 1)

\* [panic, byte, utf16]: the loop over text.chars() with its counter
prev_char_utf8_and_utf16(t, idx) ==
    LET len_utf16(b) == IF b = "F0" THEN 2 ELSE 1
        RECURSIVE loop(_, _, _)
        loop(counter, utf8_byte, utf16_byte) ==
            IF utf8_byte >= Len(t) THEN [panic |-> TRUE, byte |-> 0, utf16 |-> 0]
            ELSE LET ch == t[utf8_byte + 1]
                 IN  IF counter - 1 = 0
                     THEN [panic |-> FALSE, byte |-> utf8_byte + len_utf8(ch),
                           utf16 |-> utf16_byte + len_utf16(ch)]
                     ELSE loop(counter - 1, utf8_byte + len_utf8(ch),
                               utf16_byte + len_utf16(ch))
    IN  IF idx = 0 THEN [panic |-> FALSE, byte |-> 0, utf16 |-> 0]
        ELSE loop(idx, 0, 0)

\* insert_str_at_char, and insert_at_char with the encoding of its char as the
\* string: [t |-> the string afterwards, ret, panic]. String::insert and
\* String::insert_str panic off a character boundary.
insert_str_at_char(t, idx, string) ==
    LET at == prev_char_bytes_end(t, idx)
    IN  IF at.panic \/ ~is_char_boundary(t, at.byte)
        THEN [t |-> t, ret |-> None, panic |-> TRUE]
        ELSE [t |-> Slice(t, 0, at.byte) \o string \o Slice(t, at.byte, Len(t)),
              ret |-> None, panic |-> FALSE]

insert_str_at_char_with_utf8_idx(t, idx, string) ==
    LET byte_idx == prev_char_bytes_end(t, idx)
    IN  IF byte_idx.panic \/ ~is_char_boundary(t, byte_idx.byte)
        THEN [t |-> t, ret |-> None, panic |-> TRUE]
        ELSE [t |-> Slice(t, 0, byte_idx.byte) \o string
                      \o Slice(t, byte_idx.byte, Len(t)),
              ret |-> Some(byte_idx.byte), panic |-> FALSE]

insert_str_at_char_with_utf16_idx(t, idx, string) ==
    LET at == prev_char_utf8_and_utf16(t, idx)
    IN  IF at.panic \/ ~is_char_boundary(t, at.byte)
        THEN [t |-> t, ret |-> None, panic |-> TRUE]
        ELSE [t |-> Slice(t, 0, at.byte) \o string \o Slice(t, at.byte, Len(t)),
              ret |-> Some(at.utf16), panic |-> FALSE]

\* String::remove panics at the end of the string; it returns the character
remove_at_char(t, idx) ==
    LET at == prev_char_bytes_end(t, idx)
    IN  IF at.panic \/ at.byte >= Len(t) \/ ~is_char_boundary(t, at.byte)
        THEN [t |-> t, ret |-> None, panic |-> TRUE]
        ELSE LET end == at.byte + len_utf8(t[at.byte + 1])
             IN  [t |-> Slice(t, 0, at.byte) \o Slice(t, end, Len(t)),
                  ret |-> Some(Slice(t, at.byte, end)), panic |-> FALSE]

\* a call that changes the String: r is [t, ret, panic]
StringCall(name, input, r) == UtilCall(name, Some(input), r.t, r.ret, r.panic)

InsertAtChar ==
    \E idx \in CharIdxs, ch \in TextChars :
        StringCall("insert_at_char", <<idx, ch>>, insert_str_at_char(text, idx, ch))

InsertAtCharWithUtf8Idx ==
    \E idx \in CharIdxs, ch \in TextChars :
        StringCall("insert_at_char_with_utf8_idx", <<idx, ch>>,
                   insert_str_at_char_with_utf8_idx(text, idx, ch))

InsertAtCharWithUtf16Idx ==
    \E idx \in CharIdxs, ch \in TextChars :
        StringCall("insert_at_char_with_utf16_idx", <<idx, ch>>,
                   insert_str_at_char_with_utf16_idx(text, idx, ch))

InsertStrAtChar ==
    \E idx \in CharIdxs, string \in NewTexts :
        StringCall("insert_str_at_char", <<idx, string>>,
                   insert_str_at_char(text, idx, string))

InsertStrAtCharWithUtf8Idx ==
    \E idx \in CharIdxs, string \in NewTexts :
        StringCall("insert_str_at_char_with_utf8_idx", <<idx, string>>,
                   insert_str_at_char_with_utf8_idx(text, idx, string))

InsertStrAtCharWithUtf16Idx ==
    \E idx \in CharIdxs, string \in NewTexts :
        StringCall("insert_str_at_char_with_utf16_idx", <<idx, string>>,
                   insert_str_at_char_with_utf16_idx(text, idx, string))

RemoveAtChar ==
    \E idx \in CharIdxs :
        StringCall("remove_at_char", <<idx>>, remove_at_char(text, idx))

\* a String and the calls that change it
SpecString ==
    InitUtils /\ [][\/ InsertAtChar \/ InsertAtCharWithUtf8Idx
                    \/ InsertAtCharWithUtf16Idx
                    \/ InsertStrAtChar \/ InsertStrAtCharWithUtf8Idx
                    \/ InsertStrAtCharWithUtf16Idx \/ RemoveAtChar]_vars

-----------------------------------------------------------------------------
(* A LineBuilder driven by a caller                                        *)

\* the texts pushed and the number of pushes into one builder
PushTexts == StrsUpTo(TextChars, 2)
MaxPushes == 2

\* Line::unsafe_builder on a line of w columns
UnsafeBuilder ==
    \E w \in 0..MaxWidth :
        /\ builder = LineBuilder(w, w, FALSE)
        /\ text = <<>>
        /\ char = 0
        /\ select = None
        /\ status = None
        /\ parts = <<>>
        /\ ret = None
        /\ op = "unsafe_builder"
        /\ arg = Some(w)
        /\ out = <<>>
        /\ panicked = FALSE

\* the builder with the instructions its backend holds
TheBuilder == [remaining |-> builder.remaining, out |-> out, panic |-> FALSE]

\* a method called on the builder: b is the builder after it, r what it returned
BuilderCall(name, input, b, r, drops) ==
    /\ ~builder.dropped
    /\ builder' = LineBuilder(builder.line, b.remaining, drops)
    /\ out' = b.out
    /\ ret' = r
    /\ op' = name
    /\ arg' = input
    /\ UNCHANGED <<text, char, select, status, parts, panicked>>

Push ==
    /\ Len(Prints(out)) < MaxPushes
    /\ \E t \in PushTexts :
          BuilderCall("push", Some(t), push(TheBuilder, t),
                      Some(push_returns(TheBuilder, t)), FALSE)

PushStyled ==
    /\ Len(Prints(out)) < MaxPushes
    /\ \E t \in PushTexts :
          BuilderCall("push_styled", Some(t), push_styled(TheBuilder, t, "cursor"),
                      Some(push_returns(TheBuilder, t)), FALSE)

Pad == BuilderCall("pad", None, pad(TheBuilder), None, FALSE)

DropBuilder == BuilderCall("drop", None, Drop(TheBuilder), None, TRUE)

SpecBuilder ==
    UnsafeBuilder /\ [][Push \/ PushStyled \/ Pad \/ DropBuilder]_vars

-----------------------------------------------------------------------------
(* Properties                                                              *)

Field3 == <<text, char, select>>

\* the four operations that extend a selection by moving the cursor
ExtendOps == {"select_left", "select_right", "select_jump_left", "select_jump_right"}

\* no selection, or one whose endpoints are equal
NoSelection(s) == s = None \/ s[1][1] = s[1][2]

\* total display width of what the backend received
RECURSIVE OutWidth(_)
OutWidth(o) ==
    IF o = <<>> THEN 0
    ELSE width(Head(o).text) + Head(o).n + OutWidth(Tail(o))

\* C1: after any sequence of editing operations the cursor is within
\* [0, byte length of text] and on a character boundary, and both endpoints of
\* a selection, when there is one, are character boundaries within the text.
C1_OffsetsOnCharBoundaries ==
    /\ 0 <= char /\ char <= Len(text)
    /\ is_char_boundary(text, char)
    /\ select # None =>
          \A k \in 1..2 :
             /\ 0 <= select[1][k] /\ select[1][k] <= Len(text)
             /\ is_char_boundary(text, select[1][k])

\* a selection made by a leftward jump over a text mixing 1-byte and 4-byte
\* characters, with the cursor strictly inside the text
C1_Witness ==
    /\ op = "select_jump_left"
    /\ select # None /\ select[1][1] > select[1][2]
    /\ \A b \in {" ", "C3", "F0"} : \E i \in 1..Len(text) : text[i] = b
    /\ 0 < char /\ char < Len(text)

\* C2: rendering never panics, whatever the field state and the builder width.
C2_RenderingIsTotal == op = "insert_formatted_text" => ~panicked

\* C3: the instructions the renderer hands to the backend (printed segments
\* and final padding) have total display width exactly the builder's width.
C3_RenderedWidthIsExact ==
    (op = "insert_formatted_text" /\ ~panicked) => OutWidth(out) = arg[1]

\* C4: an operation that returns Skipped leaves text, cursor and the selection
\* reported by select() as they were.
C4_SkippedChangesNothing ==
    [][status' = Some(Skipped) =>
         /\ text' = text
         /\ char' = char
         /\ Normalized(select') = Normalized(select)]_vars

\* C5: a Status-returning operation returns Updated exactly when the text after
\* the call differs from the text before it.
C5_UpdatedIffTextChanged ==
    [][status' # None => ((status' = Some(Updated)) <=> (text' # text))]_vars

\* C6 as stated: after any operation other than the six select operations
\* there is no selection.
C6_Original ==
    op \notin {"new", "select_left", "select_right", "select_jump_left",
               "select_jump_right", "select_all", "select_token_at_cursor"}
       => select = None

\* C6: plain movement, push_char, a paste_passthrough of a newline-free string,
\* del, backspace, cut, text_set, text_take and replace_token leave no
\* selection behind; copy, and a paste rejected for its newline, leave the
\* stored selection exactly as it was.
C6_SelectionCleared ==
    [][/\ (\/ op' \in {"go_left", "go_right", "jump_left", "jump_right",
                       "start_of_line", "end_of_line", "push_char", "del",
                       "backspace", "cut", "text_set", "text_take",
                       "replace_token"}
           \/ (op' = "paste_passthrough" /\ ~contains_newline(arg'[1])))
          => select' = None
       /\ (\/ op' = "copy"
           \/ (op' = "paste_passthrough" /\ contains_newline(arg'[1])))
          => select' = select]_vars

\* cut has returned the selected text and the selection is gone
C6_Witness == op = "cut" /\ ret # None /\ select = None /\ text # <<>>

\* C7 as stated: go_left / go_right return UpdatedCursor exactly when the
\* cursor moved and Skipped otherwise.
C7_Original ==
    [][op' \in {"go_left", "go_right"} =>
         status' = Some(IF char' # char THEN UpdatedCursor ELSE Skipped)]_vars

\* C7: go_left / go_right never change the text and leave no selection; they
\* return UpdatedCursor exactly when the cursor moved or a selection was
\* dropped, and Skipped otherwise; at cursor 0 (go_left) or at the end of the
\* text (go_right) with no selection they return Skipped and change nothing.
C7_MoveStatus ==
    [][op' \in {"go_left", "go_right"} =>
         /\ text' = text
         /\ select' = None
         /\ status' = Some(IF char' # char \/ select # None
                           THEN UpdatedCursor ELSE Skipped)
         /\ (op' = "go_left" /\ char = 0) => char' = 0
         /\ (op' = "go_right" /\ char = Len(text)) => char' = char
         /\ (op' = "go_left" /\ char > 0) => char' < char
         /\ (op' = "go_right" /\ char < Len(text)) => char' > char]_vars

\* go_left at cursor 0 of a non-empty text with no selection: both steps skipped
C7_Witness ==
    /\ op = "go_left" /\ parts = <<Skipped, Skipped>>
    /\ status = Some(Skipped) /\ char = 0 /\ text # <<>>

\* C8: with a selection active and the cursor already at the boundary in the
\* direction of travel, go_right / go_left clears the selection, keeps the
\* cursor and the text and returns UpdatedCursor; the same move made again
\* returns Skipped and changes nothing.
C8_MoveAtBoundaryDropsSelection ==
    [][/\ (op' = "go_right" /\ select # None /\ char = Len(text)) =>
             (select' = None /\ char' = char /\ text' = text
              /\ status' = Some(UpdatedCursor))
       /\ (op' = "go_left" /\ select # None /\ char = 0) =>
             (select' = None /\ char' = char /\ text' = text
              /\ status' = Some(UpdatedCursor))
       /\ (op' = "go_right" /\ op = "go_right" /\ char = Len(text)) =>
             (status' = Some(Skipped) /\ Field3' = Field3)
       /\ (op' = "go_left" /\ op = "go_left" /\ char = 0) =>
             (status' = Some(Skipped) /\ Field3' = Field3)]_vars

\* go_right at the end of a non-empty text: select_drop reported the dropped
\* selection, next_char did not move
C8_Witness ==
    /\ op = "go_right" /\ parts = <<UpdatedCursor, Skipped>>
    /\ status = Some(UpdatedCursor)
    /\ char = Len(text) /\ text # <<>> /\ select = None

\* C9 as stated: the anchor of a run of select operations is the cursor offset
\* at which the run began.
C9_Original ==
    [][(op' \in ExtendOps /\ op \notin ExtendOps) =>
         (select' # None /\ select'[1][1] = char)]_vars

\* C9: a select operation keeps the anchor of an existing selection, and makes
\* the cursor offset before the call the anchor when there was none; the second
\* component becomes the new cursor; the text is untouched; the stored pair is
\* not normalized, select() reports it as (min, max).
C9_AnchorFixed ==
    [][op' \in ExtendOps =>
         /\ select' # None
         /\ select'[1][1] = (IF select = None THEN char ELSE select[1][1])
         /\ select'[1][2] = char'
         /\ text' = text
         /\ Normalized(select')[1] =
               (IF select'[1][1] > select'[1][2]
                THEN <<select'[1][2], select'[1][1]>> ELSE select'[1])]_vars

\* a leftward selection extended by a further step: init_select was skipped
\* because the selection existed, and the anchor is above the active end
C9_Witness ==
    /\ op = "select_left" /\ parts = <<Skipped, UpdatedCursor, UpdatedCursor>>
    /\ select # None /\ select[1][1] > select[1][2] + 1
    /\ select[1][2] = char

\* byte length of the character that starts at offset i of t
CharLenAt(t, i) ==
    CHOOSE n \in 1..4 :
        /\ is_char_boundary(t, i + n) /\ i + n <= Len(t)
        /\ \A k \in 1..(n - 1) : ~is_char_boundary(t, i + k)

\* byte length of the character that ends at offset i of t
CharLenBefore(t, i) ==
    CHOOSE n \in 1..4 :
        /\ i - n >= 0 /\ is_char_boundary(t, i - n)
        /\ \A k \in 1..(n - 1) : ~is_char_boundary(t, i - k)

\* C10: without a non-empty selection, del removes exactly the character that
\* starts at the cursor, keeps the cursor and returns Updated when the cursor
\* is before the end, and returns Skipped with the text unchanged otherwise;
\* backspace removes exactly the character that ends at the cursor, moves the
\* cursor back by its byte length and returns Updated when the cursor is past
\* 0, and returns Skipped with the text unchanged otherwise.
C10_DeleteOneCharacter ==
    [][/\ (op' = "del" /\ NoSelection(select)) =>
             IF char < Len(text)
             THEN /\ text' = Slice(text, 0, char)
                               \o Slice(text, char + CharLenAt(text, char), Len(text))
                  /\ char' = char
                  /\ status' = Some(Updated)
             ELSE text' = text /\ char' = char /\ status' = Some(Skipped)
       /\ (op' = "backspace" /\ NoSelection(select)) =>
             IF char > 0
             THEN /\ text' = Slice(text, 0, char - CharLenBefore(text, char))
                               \o Slice(text, char, Len(text))
                  /\ char' = char - CharLenBefore(text, char)
                  /\ status' = Some(Updated)
             ELSE text' = text /\ char' = char /\ status' = Some(Skipped)]_vars

\* backspace has removed a character in front of a 4-byte character that is
\* still intact at the cursor
C10_Witness ==
    /\ op = "backspace" /\ status = Some(Updated)
    /\ char < Len(text) /\ text[char + 1] = "F0"
    /\ Len(text) >= 5

\* whether the stored selection s has distinct endpoints
NonEmptySelection(s) == s # None /\ s[1][1] # s[1][2]

\* the normalized endpoints of the stored selection s
From(s) == Normalized(s)[1][1]
To(s) == Normalized(s)[1][2]

\* t without t[a..b]
Without(t, a, b) == Slice(t, 0, a) \o Slice(t, b, Len(t))

\* t with s inserted at offset a
WithAt(t, a, s) == Slice(t, 0, a) \o s \o Slice(t, a, Len(t))

\* C11: with a selection of distinct endpoints, of either direction, del and
\* backspace remove exactly text[from..to] of the normalized range and nothing
\* else, put the cursor at from, clear the selection and return Updated.
C11_DeleteSelection ==
    [][(op' \in {"del", "backspace"} /\ NonEmptySelection(select)) =>
         /\ text' = Without(text, From(select), To(select))
         /\ char' = From(select)
         /\ select' = None
         /\ status' = Some(Updated)]_vars

\* del has removed a selection and a character is left right after the cursor
C11_Witness ==
    /\ op = "del" /\ ret # None /\ status = Some(Updated)
    /\ select = None /\ char < Len(text)

\* C12: push_char(ch) always returns Updated and leaves no selection; over a
\* selection [from, to) of distinct endpoints the text becomes
\* old[..from] + ch + old[to..] with the cursor at from + len_utf8(ch), otherwise
\* old[..cursor] + ch + old[cursor..] with the cursor advanced by len_utf8(ch).
C12_PushChar ==
    [][op' = "push_char" =>
         LET ch == arg'[1]
             at == IF NonEmptySelection(select) THEN From(select) ELSE char
             kept == IF NonEmptySelection(select)
                     THEN Without(text, From(select), To(select)) ELSE text
         IN  /\ status' = Some(Updated)
             /\ select' = None
             /\ text' = WithAt(kept, at, ch)
             /\ char' = at + len_utf8(ch[1])]_vars

\* a 4-byte character typed over a selection that began inside the text
C12_Witness ==
    /\ op = "push_char" /\ ret # None /\ arg = Some(Crab)
    /\ char > 4 /\ char < Len(text)

\* C13: paste_passthrough of a string containing a newline returns Skipped,
\* for which is_updated() is false, and leaves text, cursor and the stored
\* selection as they were, also when a selection is active.
C13_PasteNewlineRejected ==
    [][(op' = "paste_passthrough" /\ contains_newline(arg'[1])) =>
         /\ status' = Some(Skipped)
         /\ ~is_updated(status'[1])
         /\ Field3' = Field3]_vars

\* a paste with a newline was rejected while a non-empty selection is active
C13_Witness ==
    /\ op = "paste_passthrough" /\ contains_newline(arg[1])
    /\ status = Some(Skipped) /\ NonEmptySelection(select)

\* C14: paste_passthrough of a newline-free clip returns Updated; a selection
\* [from, to) of distinct endpoints is removed first (cursor := from), the clip
\* is inserted at the cursor, the cursor advances by the clip's byte length and
\* no selection is left.
C14_PasteInserts ==
    [][(op' = "paste_passthrough" /\ ~contains_newline(arg'[1])) =>
         LET clip == arg'[1]
             at == IF NonEmptySelection(select) THEN From(select) ELSE char
             kept == IF NonEmptySelection(select)
                     THEN Without(text, From(select), To(select)) ELSE text
         IN  /\ status' = Some(Updated)
             /\ select' = None
             /\ text' = WithAt(kept, at, clip)
             /\ char' = at + Len(clip)]_vars

\* a multi-byte clip pasted over a selection, with text left after the cursor
C14_Witness ==
    /\ op = "paste_passthrough" /\ ret # None /\ status = Some(Updated)
    /\ Len(arg[1]) > 1 /\ char < Len(text)

\* C15: copy never changes text, cursor or selection; it returns
\* text[min(anchor, active)..max(anchor, active)] for a selection of distinct
\* endpoints, and None with no selection or one of equal endpoints.
C15_CopyIsPure ==
    [][op' = "copy" =>
         /\ Field3' = Field3
         /\ ~panicked'
         /\ ret' = IF select = None \/ select[1][1] = select[1][2] THEN None
                   ELSE LET a == select[1][1]
                            b == select[1][2]
                        IN  Some(Slice(text, IF a < b THEN a ELSE b,
                                             IF a < b THEN b ELSE a))]_vars

\* copy has returned the text of a leftward selection
C15_Witness ==
    /\ op = "copy" /\ ret # None
    /\ select # None /\ select[1][1] > select[1][2]

\* C16: cut on a selection [from, to) of distinct endpoints returns
\* Some(old[from..to]), leaves old[..from] + old[to..] (so the lengths of the new
\* text and of the returned clip add up to the old length), puts the cursor at
\* from and clears the selection; with no selection or one of equal endpoints it
\* returns None and leaves text and cursor unchanged.
C16_Cut ==
    [][op' = "cut" =>
         IF NonEmptySelection(select)
         THEN /\ ret' = Some(Slice(text, From(select), To(select)))
              /\ text' = Without(text, From(select), To(select))
              /\ Len(text') + Len(ret'[1]) = Len(text)
              /\ char' = From(select)
              /\ select' = None
         ELSE /\ ret' = None
              /\ text' = text
              /\ char' = char]_vars

\* cut has removed a selection from the middle of the text
C16_Witness ==
    /\ op = "cut" /\ ret # None /\ 0 < char /\ char < Len(text)

\* the character boundaries of t
Boundaries(t) == {p \in 0..Len(t) : is_char_boundary(t, p)}

\* where a rightward jump that has stepped to offset step stops: the smallest
\* boundary at or after step that is the end of t or in front of a character
\* that is not alphanumeric
RightStop(t, step) ==
    LET stops == {p \in Boundaries(t) :
                    p >= step /\ (p = Len(t) \/ ~should_jump(t[p + 1]))}
    IN  CHOOSE p \in stops : \A q \in stops : p <= q

\* where a leftward jump that has stepped to offset step stops: the largest
\* boundary at or before step that is 0 or right after a character that is not
\* alphanumeric
LeftStop(t, step) ==
    LET stops == {p \in Boundaries(t) :
                    p <= step /\ (p = 0 \/ ~should_jump(t[p - CharLenBefore(t, p) + 1]))}
    IN  CHOOSE p \in stops : \A q \in stops : p >= q

\* C18: jump_right from a cursor before the end steps over one character and
\* stops at the first boundary from there that is the end of the text or in
\* front of a non-alphanumeric character; jump_left from a cursor past 0 steps
\* back one character and stops at the last boundary from there that is 0 or
\* right after a non-alphanumeric character; whitespace and emoji stop a jump;
\* at the text boundary with no selection the jump returns Skipped and changes
\* nothing.
C18_JumpStops ==
    [][/\ (op' = "jump_right" /\ char < Len(text)) =>
             /\ char' = RightStop(text, char + CharLenAt(text, char))
             /\ text' = text
       /\ (op' = "jump_left" /\ char > 0) =>
             /\ char' = LeftStop(text, char - CharLenBefore(text, char))
             /\ text' = text
       /\ (op' = "jump_right" /\ char = Len(text) /\ select = None) =>
             (status' = Some(Skipped) /\ Field3' = Field3)
       /\ (op' = "jump_left" /\ char = 0 /\ select = None) =>
             (status' = Some(Skipped) /\ Field3' = Field3)]_vars

\* jump_left has stepped back, run over alphanumeric characters and stopped
\* right after a character inside the text
C18_Witness ==
    /\ op = "jump_left" /\ parts = <<Skipped, UpdatedCursor, UpdatedCursor>>
    /\ char > 0 /\ char < Len(text)

\* C17 as stated: copy(), then the selection cleared with the cursor where it
\* is, then paste_passthrough of the copied text gives back the original text.
C17_Original == [][op' = "copy_drop_paste" => text' = text]_vars

\* C17: for a selection [from, to) of distinct endpoints, copy() followed by
\* paste_passthrough of the copied text with the selection still active gives
\* back the original text, with the cursor at to and no selection; when the
\* selection is dropped first, the paste inserts a second copy of the selected
\* text at the cursor, so the text grows by to - from bytes.
C17_RoundTrip ==
    [][/\ op' = "copy_paste" =>
             /\ text' = text
             /\ char' = To(select)
             /\ select' = None
             /\ status' = Some(Updated)
       /\ op' = "copy_drop_paste" =>
             /\ text' = WithAt(text, char, Slice(text, From(select), To(select)))
             /\ Len(text') = Len(text) + To(select) - From(select)
             /\ char' = char + To(select) - From(select)
             /\ select' = None
             /\ status' = Some(Updated)]_vars

\* a copied multi-byte selection pasted back over itself, inside a longer text
C17_Witness ==
    /\ op = "copy_paste" /\ arg # None /\ ret = arg
    /\ Len(arg[1]) > 1 /\ Len(text) > Len(arg[1])

\* whether the mapping table lists the key event
InTable(key) ==
    \/ key.code = "Char" /\ CONTROL \notin key.mods
    \/ key.code = "Char" /\ key.ch = LatinA /\ key.mods = {CONTROL}
    \/ key.code \in {"Delete", "Backspace", "Home", "End", "Left", "Right"}

\* the operation the mapping table gives for a listed key event, applied to f
Direct(f, key) ==
    IF key.code = "Char" /\ CONTROL \notin key.mods THEN push_char(f, key.ch)
    ELSE IF key.code = "Char" THEN select_all(f)
    ELSE IF key.code = "Delete" THEN del(f)
    ELSE IF key.code = "Backspace" THEN backspace(f)
    ELSE IF key.code = "Home" THEN start_of_line(f)
    ELSE IF key.code = "End" THEN end_of_line(f)
    ELSE IF key.code = "Left"
         THEN (IF key.mods = {} THEN go_left(f)
               ELSE IF key.mods = {SHIFT} THEN select_left(f)
               ELSE IF key.mods = {CONTROL} THEN jump_left(f)
               ELSE select_jump_left(f))
    ELSE (IF key.mods = {} THEN go_right(f)
          ELSE IF key.mods = {SHIFT} THEN select_right(f)
          ELSE IF key.mods = {CONTROL} THEN jump_right(f)
          ELSE select_jump_right(f))

\* C19: for every key event of the mapping table, map(key) leaves the same
\* text, cursor and selection and returns the same Status as the operation the
\* table names: go / select / jump / select_jump left and right for Left and
\* Right with none / shift / ctrl / ctrl+shift, push_char for a character
\* without ctrl, select_all for ctrl+a, del, backspace, start_of_line,
\* end_of_line for Delete, Backspace, Home, End.
C19_MapEqualsDirect ==
    [][(op' = "map" /\ InTable(arg'[1])) =>
         LET direct == Direct(Self, arg'[1])
         IN  /\ text' = direct.f.text
             /\ char' = direct.f.char
             /\ select' = direct.f.select
             /\ status' = Some(direct.st)]_vars

\* ctrl+shift+Right has returned UpdatedCursor and left a selection that spans
\* two characters, the second alphanumeric, up to the end of the text
C19_Witness ==
    /\ op = "map" /\ arg[1].code = "Right" /\ arg[1].mods = {SHIFT, CONTROL}
    /\ status = Some(UpdatedCursor)
    /\ select = Some(<<0, Len(text)>>) /\ char = Len(text)
    /\ char_len(text) = 2 /\ should_jump(text[PrevStart(text, Len(text)) + 1])

\* C20: for a key event outside the mapping table (a character with the
\* control modifier other than exactly ctrl+a, or a key code the table does not
\* list) map returns None, not Some(Skipped), and leaves text, cursor and
\* selection unchanged.
C20_UnmappedKey ==
    [][(op' = "map" /\ ~InTable(arg'[1])) =>
         (status' = None /\ status' # Some(Skipped) /\ Field3' = Field3)]_vars

\* ctrl+shift+a was not handled on a field holding a selection
C20_Witness ==
    /\ op = "map" /\ arg[1] = KeyEvent("Char", LatinA, {SHIFT, CONTROL})
    /\ status = None /\ NonEmptySelection(select)

\* whether the character that ends at offset i of t is whitespace
WhitespaceBefore(t, i) == i > 0 /\ is_whitespace(t[PrevStart(t, i) + 1])

\* whether the character that starts at offset i of t is whitespace
WhitespaceAt(t, i) == i < Len(t) /\ is_whitespace(t[i + 1])

\* the token range at the cursor
TokenRange == arg_range_at(text, char)

\* C21: for every text and every character-boundary index idx within it,
\* arg_range_at(text, idx) is a range [s, e) of character boundaries with
\* s <= idx <= e that holds no whitespace and is maximal (s is 0 or follows
\* whitespace, e is the end of the text or is followed by whitespace); at the
\* first byte of a token that follows whitespace it is that whole token; it is
\* empty only when on each side of idx there is whitespace or the text ends.
C21_TokenRangeIsMaximalRun ==
    LET s == TokenRange[1]
        e == TokenRange[2]
    IN  /\ 0 <= s /\ s <= char /\ char <= e /\ e <= Len(text)
        /\ is_char_boundary(text, s) /\ is_char_boundary(text, e)
        /\ \A i \in (s + 1)..e : ~is_whitespace(text[i])
        /\ s = 0 \/ WhitespaceBefore(text, s)
        /\ e = Len(text) \/ WhitespaceAt(text, e)
        /\ (WhitespaceBefore(text, char) /\ char < Len(text)
               /\ ~WhitespaceAt(text, char)) => (s = char /\ e > char)
        /\ s = e => /\ char = 0 \/ WhitespaceBefore(text, char)
                    /\ char = Len(text) \/ WhitespaceAt(text, char)

\* get_token_at_cursor has returned a multi-byte token that lies between two
\* whitespace characters, with the cursor on its first byte
C21_Witness ==
    /\ op = "get_token_at_cursor" /\ ret # None /\ Len(ret[1]) > 1
    /\ WhitespaceBefore(text, char) /\ TokenRange[1] = char
    /\ TokenRange[2] < Len(text)

\* the cursor is right after the last character of a token, whitespace follows
AtTokenEnd ==
    char > 0 /\ ~WhitespaceBefore(text, char) /\ WhitespaceAt(text, char)

\* the cursor is right after whitespace, on the first character of a token
AtTokenStart ==
    WhitespaceBefore(text, char) /\ char < Len(text) /\ ~WhitespaceAt(text, char)

\* C22 as stated: at the end of a token the token is returned, at the start of
\* a token that follows whitespace the empty range idx..idx is returned.
C22_Original ==
    /\ AtTokenEnd => (TokenRange[2] = char /\ TokenRange[1] < char)
    /\ AtTokenStart => TokenRange = <<char, char>>

\* C22: with the cursor right after the last character of a token (whitespace
\* follows) the lookup returns that token, ending at the cursor; with the cursor
\* right after whitespace on the first character of a token it returns that
\* following token, starting at the cursor; get_token_at_cursor returns the
\* text of the range.
C22_TokenEdges ==
    /\ AtTokenEnd => (TokenRange[2] = char /\ TokenRange[1] < char)
    /\ AtTokenStart => (TokenRange[1] = char /\ TokenRange[2] > char)
    /\ op = "get_token_at_cursor" =>
          ret = Some(Slice(text, TokenRange[1], TokenRange[2]))

\* get_token_at_cursor has returned the token that ends at the cursor
C22_Witness ==
    /\ op = "get_token_at_cursor" /\ AtTokenEnd
    /\ ret = Some(Slice(text, TokenRange[1], char)) /\ ret[1] # <<>>

\* C23: replace_token(new) replaces exactly the byte range [s, e) that
\* arg_range_at reports for the cursor: the text becomes old[..s] + new +
\* old[e..], the cursor becomes s + the byte length of new, which is a
\* character boundary of the new text, and the selection is None.
C23_ReplaceToken ==
    [][op' = "replace_token" =>
          LET s == TokenRange[1]
              e == TokenRange[2]
          IN  /\ ~panicked'
              /\ text' = WithAt(Without(text, s, e), s, arg'[1])
              /\ Slice(text', 0, s) = Slice(text, 0, s)
              /\ Slice(text', s + Len(arg'[1]), Len(text')) = Slice(text, e, Len(text))
              /\ char' = s + Len(arg'[1])
              /\ is_char_boundary(text', char')
              /\ select' = None]_vars

\* replace_token has put a multi-byte string in the place of a token in the
\* middle of the text: text is kept before and after the new cursor
C23_Witness ==
    /\ op = "replace_token" /\ Len(arg[1]) > 1
    /\ char > Len(arg[1]) /\ char < Len(text)
    /\ Slice(text, char - Len(arg[1]), char) = arg[1]

\* C24: select_token_at_cursor with a non-empty token range [s, e) at the
\* cursor sets the selection to (s, e), moves the cursor to e and returns
\* UpdatedCursor, the text unchanged; with an empty range, or with the
\* selection already (s, e) and the cursor at e, it returns Skipped and changes
\* nothing; a second call right after a first returns Skipped.
C24_SelectToken ==
    [][op' = "select_token_at_cursor" =>
          LET unchanged == RangeIsEmpty(TokenRange)
                             \/ (select = Some(TokenRange) /\ char = TokenRange[2])
          IN  /\ text' = text
              /\ unchanged => (status' = Some(Skipped) /\ Field3' = Field3)
              /\ ~unchanged => /\ status' = Some(UpdatedCursor)
                               /\ select' = Some(TokenRange)
                               /\ char' = TokenRange[2]
              /\ op = "select_token_at_cursor" => status' = Some(Skipped)]_vars

\* a second select_token_at_cursor in a row was skipped on a selected token
C24_Witness ==
    /\ op = "select_token_at_cursor" /\ status = Some(Skipped)
    /\ select = Some(TokenRange) /\ ~RangeIsEmpty(TokenRange)
    /\ char = TokenRange[2] /\ TokenRange[1] > 0

\* C25: select_all on a non-empty text sets the selection to (0, text length),
\* puts the cursor at the text length and returns UpdatedCursor, whatever the
\* cursor and selection were; on an empty text, or with the selection already
\* (0, text length) and the cursor at the end, it returns Skipped and changes
\* nothing; a second call right after a first returns Skipped.
C25_SelectAll ==
    [][op' = "select_all" =>
          LET whole == Some(<<0, Len(text)>>)
              unchanged == text = <<>> \/ (select = whole /\ char = Len(text))
          IN  /\ text' = text
              /\ unchanged => (status' = Some(Skipped) /\ Field3' = Field3)
              /\ ~unchanged => /\ status' = Some(UpdatedCursor)
                               /\ select' = whole
                               /\ char' = Len(text)
              /\ op = "select_all" => status' = Some(Skipped)]_vars

\* a second select_all in a row was skipped on a fully selected text
C25_Witness ==
    /\ op = "select_all" /\ status = Some(Skipped)
    /\ text # <<>> /\ select = Some(<<0, Len(text)>>) /\ char = Len(text)

\* C26: the scroll offset computed for a render of width W is 0 when
\* width(text[..cursor]) + 2 < W; otherwise it is the smallest character
\* boundary offset <= cursor with width(text[offset..cursor]) + 2 < W, or the
\* cursor itself when there is no such boundary.
C26_ScrollOffset ==
    (op = "insert_formatted_text" /\ arg[1] >= 1) =>
        LET W == arg[1]
            fits == {o \in 0..char : /\ is_char_boundary(text, o)
                                     /\ width(Slice(text, o, char)) + 2 < W}
            smallest == CHOOSE o \in fits : \A p \in fits : o <= p
        IN  calculate_width_offset(Self, W) =
                IF width(Slice(text, 0, char)) + 2 < W THEN 0
                ELSE IF fits = {} THEN char ELSE smallest

\* the character at the cursor, or the blank cell of a cursor at the end
CursorGlyph ==
    IF char < Len(text) THEN Slice(text, char, char + len_utf8(text[char + 1]))
    ELSE Space

\* C27: for every reachable field and every render width W >= 2 the cursor
\* stays visible: the backend receives a cursor-styled segment that is the
\* whole cursor glyph (the character at the cursor, or one blank cell at the
\* end of the text), and the display width of everything emitted before it
\* plus the width of the glyph is at most W.
C27_CursorVisible ==
    (op = "insert_formatted_text" /\ arg[1] >= 2) =>
        \E i \in 1..Len(out) :
            /\ out[i] = Printed(CursorGlyph, "cursor")
            /\ \A j \in 1..(i - 1) : out[j].style # "cursor"
            /\ OutWidth(SubSeq(out, 1, i - 1)) + width(CursorGlyph) <= arg[1]

\* a render of width 3 that scrolled the whole text before the cursor away to
\* show the 2-column character under the cursor
C27_Witness ==
    /\ op = "insert_formatted_text" /\ arg[1] = 3 /\ ~panicked
    /\ char < Len(text) /\ CursorGlyph = Crab
    /\ calculate_width_offset(Self, 3) = char /\ char > 0
    /\ \E i \in 1..Len(out) : out[i] = Printed(Crab, "cursor")

\* i is the end of a whole character of t
CharPrefix(p, t) ==
    /\ Len(p) <= Len(t) /\ p = SubSeq(t, 1, Len(p))
    /\ is_char_boundary(t, Len(p))

\* C28: with no selection, or a selection of equal endpoints, a render of
\* width W >= 1 emits in order text[offset..cursor] unstyled, the character at
\* the cursor (one blank cell at the end of the text) in the cursor style, the
\* text after the cursor character unstyled, and then padding: each printed
\* segment is the intended one cut at a character boundary, the first segment
\* that is cut is cut because its next character does not fit the width left,
\* nothing but empty segments follows a cut one, and padding comes last. An empty buffer
\* renders as one cursor-styled blank cell followed by padding of W - 1 (the
\* empty unstyled segment before the cell shows nothing).
C28_RenderWithoutSelection ==
    (/\ op = "insert_formatted_text" /\ arg[1] >= 1
     /\ ~NonEmptySelection(Normalized(select))) =>
        LET W == arg[1]
            offset == calculate_width_offset(Self, W)
            at_end == char = Len(text)
            segs == IF at_end
                    THEN <<Slice(text, offset, char), Space>>
                    ELSE <<Slice(text, offset, char), CursorGlyph,
                           Slice(text, char + Len(CursorGlyph), Len(text))>>
            styles == IF at_end THEN <<"default", "cursor">>
                      ELSE <<"default", "cursor", "default">>
            prints == Prints(out)
        IN  /\ ~panicked
            /\ Len(prints) = Len(segs)
            /\ \A i \in 1..Len(out) : out[i].kind = "pad" => i = Len(out)
            /\ \A i \in 1..Len(segs) :
                  /\ prints[i].style = styles[i]
                  /\ CharPrefix(prints[i].text, segs[i])
                  /\ prints[i].text # segs[i] =>
                        /\ (\A j \in 1..(i - 1) : prints[j].text = segs[j]) =>
                              OutWidth(SubSeq(prints, 1, i))
                                + char_width(segs[i][Len(prints[i].text) + 1]) > W
                        /\ \A j \in (i + 1)..Len(segs) : prints[j].text = <<>>
                        /\ out = prints
            /\ text = <<>> =>
                  out = <<Printed(<<>>, "default"), Printed(Space, "cursor")>>
                          \o (IF W > 1 THEN <<Padded(W - 1)>> ELSE <<>>)

\* a scrolled render without selection: part of the text before the cursor,
\* the cursor character, and a text after it that was cut at the width
C28_Witness ==
    /\ op = "insert_formatted_text" /\ select = None /\ ~panicked
    /\ char > 0 /\ char < Len(text) /\ Len(out) = 3
    /\ out[1] = Printed(Slice(text, 0, char), "default")
    /\ out[2] = Printed(CursorGlyph, "cursor")
    /\ out[3].kind = "print"
    /\ out[3].text # Slice(text, char + Len(CursorGlyph), Len(text))

\* the bytes the backend was asked to print, each with the style of its segment
RECURSIVE Flat(_)
Flat(o) ==
    IF o = <<>> THEN <<>>
    ELSE [k \in 1..Len(Head(o).text) |-> <<Head(o).text[k], Head(o).style>>]
           \o Flat(Tail(o))

\* C29: with a selection [from, to) of distinct endpoints (from raised to the
\* scroll offset) a render of width W >= 1 emits text[offset..] in order and
\* once, up to the first character that does not fit: the cursor character
\* (or the blank cell of a cursor at the end) in the cursor style, the other
\* bytes of [from, to) in the selection style, the bytes before from and from
\* to on unstyled, and padding last.
C29_RenderWithSelection ==
    (/\ op = "insert_formatted_text" /\ arg[1] >= 1
     /\ NonEmptySelection(Normalized(select))) =>
        LET W == arg[1]
            offset == calculate_width_offset(Self, W)
            from == IF offset < From(select) THEN From(select) ELSE offset
            to == To(select)
            whole == Slice(text, offset, Len(text))
                       \o (IF char = Len(text) THEN Space ELSE <<>>)
            flat == Flat(Prints(out))
            style(k) ==
                LET at == offset + k - 1
                IN  IF at >= Len(text) THEN "cursor"
                    ELSE IF char <= at /\ at < char + Len(CursorGlyph) THEN "cursor"
                    ELSE IF from <= at /\ at < to THEN "select"
                    ELSE "default"
        IN  /\ Len(flat) <= Len(whole)
            /\ \A k \in 1..Len(flat) : flat[k] = <<whole[k], style(k)>>
            /\ is_char_boundary(whole, Len(flat))
            /\ Len(flat) < Len(whole) =>
                  OutWidth(Prints(out)) + char_width(whole[Len(flat) + 1]) > W
            /\ \A i \in 1..Len(out) : out[i].kind = "pad" => i = Len(out)

\* the three renders of the field
RenderOps == {"insert_formatted_text", "widget", "widget_with_count"}

C31_StatusAlgebra ==
    LET Statuses == {Skipped, UpdatedCursor, Updated}
        Max(a, b) == IF a < b THEN b ELSE a
        Greatest(sts) == CHOOSE m \in Statuses :
                            /\ \E i \in 1..Len(sts) : sts[i] = m
                            /\ \A i \in 1..Len(sts) : sts[i] <= m
    IN  /\ Skipped < UpdatedCursor /\ UpdatedCursor < Updated
        /\ \A a, b \in Statuses :
              /\ Add(a, b) = Max(a, b)
              /\ AddAssign(a, b) = Add(a, b)
              /\ Add(a, b) = Add(b, a)
              /\ Add(a, a) = a
              /\ Add(Skipped, a) = a /\ Add(a, Skipped) = a
              /\ \A c \in Statuses : Add(Add(a, b), c) = Add(a, Add(b, c))
        /\ (parts # <<>> /\ status # None) => status = Some(Greatest(parts))

\* a method has summed a Skipped step and an UpdatedCursor step, the smaller
\* one last, and returned UpdatedCursor
C31_Witness ==
    /\ Len(parts) >= 2 /\ status = Some(UpdatedCursor)
    /\ parts[Len(parts)] = Skipped
    /\ \E i \in 1..Len(parts) : parts[i] = UpdatedCursor

\* C32: truncate_width(text, w) returns (rem, prefix) where prefix is a prefix
\* of text ending on a character boundary, the character widths of prefix
\* plus rem make w, and prefix is the longest such prefix (it is the whole
\* text or the width of the next character exceeds rem); truncate_width_start
\* returns the longest suffix in the same way.
C32_TruncateWidth ==
    /\ op = "truncate_width" =>
          LET rem == ret[1][1]
              prefix == ret[1][2]
          IN  /\ Len(prefix) <= Len(text) /\ prefix = Slice(text, 0, Len(prefix))
              /\ is_char_boundary(text, Len(prefix))
              /\ width(prefix) + rem = arg[1]
              /\ prefix = text \/ char_width(text[Len(prefix) + 1]) > rem
    /\ op = "truncate_width_start" =>
          LET rem == ret[1][1]
              suffix == ret[1][2]
              at == Len(text) - Len(suffix)
          IN  /\ Len(suffix) <= Len(text) /\ suffix = Slice(text, at, Len(text))
              /\ is_char_boundary(text, at)
              /\ width(suffix) + rem = arg[1]
              /\ suffix = text \/ char_width(text[PrevStart(text, at) + 1]) > rem

\* truncate_width_start has cut a text before a 2-column character for which
\* one column was left, keeping a multi-byte suffix
C32_Witness ==
    /\ op = "truncate_width_start" /\ ret[1][1] = 1
    /\ ret[1][2] # text /\ Len(ret[1][2]) >= 2
    /\ text[PrevStart(text, Len(text) - Len(ret[1][2])) + 1] = "F0"

\* C33: the checked accessors never fail: get_char_range(from, to) returns
\* Some(the characters from..to) when from <= to <= character count and None
\* otherwise, get_from_char and get_to_char return None exactly when the index
\* exceeds the character count, and a returned slice starts and ends on a
\* character boundary of the text.
C33_CheckedAccessors ==
    LET ByteOf(k) == CHOOSE b \in 0..Len(text) :
                        /\ is_char_boundary(text, b)
                        /\ char_len(Slice(text, 0, b)) = k
        count == char_len(text)
    IN  /\ op = "get_char_range" =>
              /\ ~panicked
              /\ ret = IF arg[1][1] <= arg[1][2] /\ arg[1][2] <= count
                       THEN Some(Slice(text, ByteOf(arg[1][1]), ByteOf(arg[1][2])))
                       ELSE None
        /\ op = "get_from_char" =>
              ret = IF arg[1] <= count THEN Some(Slice(text, ByteOf(arg[1]), Len(text)))
                    ELSE None
        /\ op = "get_to_char" =>
              ret = IF arg[1] <= count THEN Some(Slice(text, 0, ByteOf(arg[1])))
                    ELSE None

\* C34: the unchecked helpers turn a character index k into the byte offset
\* just after the k-th character (0 gives byte 0) and panic exactly when k
\* exceeds the character count: an insert at k = character count appends, at
\* k > character count it panics and leaves the string alone, remove_at_char
\* panics at k >= character count, and the plain, utf8-index and utf16-index
\* variants of the inserts give the same string (the index variants return
\* that byte offset and the count of UTF-16 units before it).
C34_UncheckedHelpers ==
    [][LET ByteOf(k) == CHOOSE b \in 0..Len(text) :
                           /\ is_char_boundary(text, b)
                           /\ char_len(Slice(text, 0, b)) = k
           count == char_len(text)
           idx == arg'[1][1]
           Inserts == {"insert_at_char", "insert_at_char_with_utf8_idx",
                       "insert_at_char_with_utf16_idx", "insert_str_at_char",
                       "insert_str_at_char_with_utf8_idx",
                       "insert_str_at_char_with_utf16_idx"}
       IN  /\ op' \in Inserts =>
                 /\ panicked' <=> idx > count
                 /\ panicked' => text' = text
                 /\ ~panicked' =>
                       /\ text' = WithAt(text, ByteOf(idx), arg'[1][2])
                       /\ idx = count => text' = text \o arg'[1][2]
                       /\ op' \in {"insert_at_char_with_utf8_idx",
                                    "insert_str_at_char_with_utf8_idx"}
                             => ret' = Some(ByteOf(idx))
                       /\ op' \in {"insert_at_char_with_utf16_idx",
                                    "insert_str_at_char_with_utf16_idx"}
                             => ret' = Some(idx + Cardinality(
                                   {i \in 1..ByteOf(idx) : text[i] = "F0"}))
           /\ op' = "remove_at_char" =>
                 /\ panicked' <=> idx >= count
                 /\ panicked' => text' = text
                 /\ ~panicked' =>
                       /\ ret' = Some(Slice(text, ByteOf(idx), ByteOf(idx + 1)))
                       /\ text' = Without(text, ByteOf(idx), ByteOf(idx + 1))]_vars

\* insert_str_at_char_with_utf16_idx has appended a string at the character
\* count of a text that holds a character of two UTF-16 units
C34_Witness ==
    /\ op = "insert_str_at_char_with_utf16_idx" /\ ~panicked
    /\ arg[1][2] # <<>> /\ ret = Some(arg[1][1] + 1) /\ arg[1][1] >= 2
    /\ Slice(text, Len(text) - Len(arg[1][2]), Len(text)) = arg[1][2]
    /\ char_len(text) = arg[1][1] + 1

\* C35: push and push_styled return true if and only if the line is not full
\* after the push (remaining > 0) and false if and only if it is finished
\* (remaining = 0), also when the pushed text fits the remaining width exactly.
C35_PushReturnsNotFull ==
    op \in {"push", "push_styled"} => (ret = Some(TRUE) <=> builder.remaining > 0)

\* C36: whenever a selection exists after any sequence of public operations,
\* its second (active) component is the cursor, so the cursor is one of the two
\* ends of the normalized selection.
C36_ActiveEndIsCursor ==
    select # None =>
        /\ select[1][2] = char
        /\ char \in {Normalized(select)[1][1], Normalized(select)[1][2]}

\* a selection made leftwards over a character: the cursor is the lower end of
\* the normalized selection and the anchor the upper one
C36_Witness ==
    /\ op = "select_left" /\ select # None
    /\ select[1][1] > char /\ Normalized(select)[1][1] = char

\* C37: cursor_set(n) keeps the buffer invariant for every n: afterwards the
\* cursor is within the text (n beyond the text is clamped to its length) and
\* on a character boundary, the selection is None, and the Status is Skipped
\* exactly when neither cursor nor selection changed.
C37_CursorSet ==
    [][op' = "cursor_set" =>
         /\ char' = (IF arg'[1] > Len(text) THEN Len(text) ELSE arg'[1])
         /\ is_char_boundary(text', char')
         /\ text' = text /\ select' = None
         /\ (status' = Some(Skipped) <=> (char' = char /\ select' = select))]_vars

\* C38: with a non-empty selection [from, to), cut() followed at once by
\* paste_passthrough of the returned text restores the text, leaves the cursor
\* at to and leaves no selection.
C38_CutPasteRestores ==
    [][op' = "cut_paste" =>
         /\ text' = text
         /\ char' = Normalized(select)[1][2]
         /\ select' = None
         /\ ~panicked' /\ status' = Some(Updated)]_vars

\* a cut and paste of a multi-byte selection that ends before the end of the
\* text: the cursor is back at to, inside the restored text
C38_Witness ==
    /\ op = "cut_paste" /\ arg # None /\ Len(arg[1]) > 1
    /\ 0 < char /\ char < Len(text) /\ select = None

\* C39: for a replacement new without whitespace, replace_token(new) followed
\* by get_token_at_cursor() returns Some(new): the token at the repositioned
\* cursor is the replacement, not merged with a neighbouring token.
C39_ReplacedTokenIsFound ==
    [][(/\ op' = "replace_get"
        /\ \A i \in 1..Len(arg'[1]) : ~is_whitespace(arg'[1][i]))
       => ret' = Some(arg'[1])]_vars

\* a two-character replacement of a token that has whitespace and another
\* character next to it
C39_Witness ==
    /\ op = "replace_get" /\ char_len(arg[1]) = 2 /\ ret = arg
    /\ \E i \in 1..Len(text) : is_whitespace(text[i])
    /\ char < Len(text)

====
